---- MODULE Spec2Model ----
(***************************************************************************)
(* Transaction ingestion and deduplication of budget-cli: the Budget       *)
(* facade (budget/budget.py), the fingerprint (budget/utils.py) and the    *)
(* session-bound TransactionManager (budget/core/transactions.py), over    *)
(* one SQLite "transactions" table (budget/models.py).                     *)
(*                                                                         *)
(* Text values are sequences of one-character strings.  Amounts are        *)
(* integers counted in thousandths (5500 is 5.50).                         *)
(***************************************************************************)
EXTENDS Integers, Sequences, FiniteSets, TLC

\* Bounds of the model
NumProcs == 3
MaxId == 2
MaxBatch == 3
MaxTicks == 1
MaxLimits == 2

Procs == 1..NumProcs

\* Python None / SQL NULL of a text or hash value
None == <<"<null>">>

----------------------------------------------------------------------------
\* Text helpers: str.lower() and str.strip()

LowerChar(c) ==
    CASE c = "A" -> "a" [] c = "E" -> "e" [] c = "T" -> "t"
      [] c = "V" -> "v" [] c = "B" -> "b" [] OTHER -> c

Lower(s) == [i \in 1..Len(s) |-> LowerChar(s[i])]

IsSpace(c) == c = " "

RECURSIVE LStrip(_)
LStrip(s) == IF s # <<>> /\ IsSpace(Head(s)) THEN LStrip(Tail(s)) ELSE s

RECURSIVE RStrip(_)
RStrip(s) ==
    IF s # <<>> /\ IsSpace(s[Len(s)]) THEN RStrip(SubSeq(s, 1, Len(s) - 1)) ELSE s

Strip(s) == RStrip(LStrip(s))

\* Python truthiness of an Optional[str]: None and "" are falsy
Truthy(s) == s # None /\ s # <<>>

----------------------------------------------------------------------------
\* Number formatting

DigitChars == <<"0", "1", "2", "3", "4", "5", "6", "7", "8", "9">>

RECURSIVE IntStr(_)
IntStr(n) ==
    IF n < 10 THEN <<DigitChars[n + 1]>>
    ELSE IntStr(n \div 10) \o <<DigitChars[(n % 10) + 1]>>

RECURSIVE ZeroPad(_, _)
ZeroPad(s, width) == IF Len(s) >= width THEN s ELSE ZeroPad(<<"0">> \o s, width)

\* f"{float(amount):.2f}" of an amount in thousandths: round to the nearest
\* hundredth (the last digit of the inputs used is never 5, so the rounding
\* mode of ties does not matter)
Format2f(amount) ==
    LET mag == IF amount < 0 THEN 0 - amount ELSE amount
        cents == (mag + 5) \div 10
        body == IntStr(cents \div 100) \o <<".">> \o ZeroPad(IntStr(cents % 100), 2)
    IN IF amount < 0 THEN <<"-">> \o body ELSE body

----------------------------------------------------------------------------
\* Calendar: a datetime is [year, month, day, hour]

IsLeap(y) == (y % 4 = 0 /\ y % 100 # 0) \/ y % 400 = 0

DaysInMonth(y, m) ==
    CASE m \in {4, 6, 9, 11} -> 30
      [] m = 2 -> IF IsLeap(y) THEN 29 ELSE 28
      [] OTHER -> 31

NextDay(dt) ==
    IF dt.day < DaysInMonth(dt.year, dt.month) THEN [dt EXCEPT !.day = @ + 1]
    ELSE IF dt.month < 12 THEN [dt EXCEPT !.month = @ + 1, !.day = 1]
    ELSE [dt EXCEPT !.year = @ + 1, !.month = 1, !.day = 1]

\* One tick of the clock is half a day
AddTick(dt) ==
    IF dt.hour + 12 < 24 THEN [dt EXCEPT !.hour = @ + 12]
    ELSE [NextDay(dt) EXCEPT !.hour = dt.hour + 12 - 24]

RECURSIVE AddTicks(_, _)
AddTicks(dt, n) == IF n = 0 THEN dt ELSE AddTicks(AddTick(dt), n - 1)

\* The wall clock when the model starts
Epoch == [year |-> 2025, month |-> 2, day |-> 28, hour |-> 12]

\* datetime.now() after c ticks of the clock
ClockTime(c) == AddTicks(Epoch, c)

\* A date formatted with its hour, as isoformat() would
StrfDateTime(dt) ==
    ZeroPad(IntStr(dt.year), 4) \o <<"-">> \o ZeroPad(IntStr(dt.month), 2)
        \o <<"-">> \o ZeroPad(IntStr(dt.day), 2) \o <<"T">> \o ZeroPad(IntStr(dt.hour), 2)

\* date.strftime("%Y-%m-%d")
StrfDate(dt) ==
    ZeroPad(IntStr(dt.year), 4) \o <<"-">> \o ZeroPad(IntStr(dt.month), 2)
        \o <<"-">> \o ZeroPad(IntStr(dt.day), 2)

PrevDay(dt) ==
    IF dt.day > 1 THEN [dt EXCEPT !.day = @ - 1]
    ELSE IF dt.month > 1
         THEN [dt EXCEPT !.month = @ - 1, !.day = DaysInMonth(dt.year, dt.month - 1)]
    ELSE [dt EXCEPT !.year = @ - 1, !.month = 12, !.day = 31]

\* dt + timedelta(days=n)
RECURSIVE AddDays(_, _)
AddDays(dt, n) ==
    IF n = 0 THEN dt
    ELSE IF n > 0 THEN AddDays(NextDay(dt), n - 1)
    ELSE AddDays(PrevDay(dt), n + 1)

RECURSIVE DaysBeforeMonth(_, _)
DaysBeforeMonth(y, m) ==
    IF m = 1 THEN 0 ELSE DaysBeforeMonth(y, m - 1) + DaysInMonth(y, m - 1)

\* date.toordinal(): the number of the day, 0001-01-01 being day 1
ToOrdinal(dt) ==
    LET y == dt.year - 1
    IN y * 365 + (y \div 4) - (y \div 100) + (y \div 400)
           + DaysBeforeMonth(dt.year, dt.month) + dt.day

\* date.weekday(): Monday is 0, Sunday is 6
Weekday(dt) == (ToOrdinal(dt) + 6) % 7

\* dt + timedelta(hours=h), for less than a day
AddHours(dt, h) ==
    LET total == dt.hour + h
    IN IF total < 0 THEN [PrevDay(dt) EXCEPT !.hour = total + 24]
       ELSE IF total >= 24 THEN [NextDay(dt) EXCEPT !.hour = total - 24]
       ELSE [dt EXCEPT !.hour = total]

\* datetime.combine(d, datetime.min.time()) and datetime.combine(d,
\* datetime.max.time()): the first and the last instant of the day, the last
\* one at the resolution of the model's clock
MinTime(dt) == [dt EXCEPT !.hour = 0]
MaxTime(dt) == [dt EXCEPT !.hour = 23]

\* The order of datetimes, as SQLite compares the stored timestamps
DtLeq(d1, d2) ==
    \/ d1.year < d2.year
    \/ d1.year = d2.year /\ d1.month < d2.month
    \/ d1.year = d2.year /\ d1.month = d2.month /\ d1.day < d2.day
    \/ d1.year = d2.year /\ d1.month = d2.month /\ d1.day = d2.day /\ d1.hour <= d2.hour

----------------------------------------------------------------------------
\* Fingerprint (budget/utils.py)

\* hashlib.sha256(...).hexdigest(): collision-free digest of its input
Sha256(s) == <<"sha256:">> \o s

\* A hashed string that takes the description as it was typed
HashInputRaw(date, amount, description, card) ==
    LET date_str == StrfDate(date)
        amount_str == Format2f(amount)
        card_normalized == IF Truthy(card) THEN Strip(Lower(card)) ELSE <<>>
    IN date_str \o <<"|">> \o amount_str \o <<"|">> \o description
           \o <<"|">> \o card_normalized

\* A hashed string without delimiters between the fields
HashInputJoined(date, amount, description, card) ==
    StrfDate(date) \o Format2f(amount) \o Strip(Lower(description))
        \o (IF Truthy(card) THEN Strip(Lower(card)) ELSE <<>>)

\* The string that is hashed: the normalised date, amount, description and
\* card, joined by "|"
HashInput(date, amount, description, card) ==
    LET date_str == StrfDate(date)
        amount_str == Format2f(amount)
        desc_normalized == Strip(Lower(description))
        card_normalized == IF Truthy(card) THEN Strip(Lower(card)) ELSE <<>>
    IN date_str \o <<"|">> \o amount_str \o <<"|">> \o desc_normalized
           \o <<"|">> \o card_normalized

\* A fingerprint that leaves the card out
generate_transaction_hash_no_card(date, amount, description, card) ==
    Sha256(HashInput(date, amount, description, None))

generate_transaction_hash(date, amount, description, card) ==
    Sha256(HashInput(date, amount, description, card))

----------------------------------------------------------------------------
\* Inputs

Cash == <<"cash">>
CardType == <<"card">>
Manual == <<"manual">>
Pdf == <<"pdf">>

Tea == <<"T", "e", "a">>
TeaLoud == <<" ", "T", "E", "A", " ">>
Blank == <<" ", " ">>
Visa == <<"V", "i", "s", "a">>
Food == <<"Food">>

NoDate == [year |-> 0, month |-> 0, day |-> 0, hour |-> 0]
DayOne == [year |-> 2025, month |-> 2, day |-> 28, hour |-> 9]
DayOneLate == [year |-> 2025, month |-> 2, day |-> 28, hour |-> 21]

\* Keyword arguments of one add_transaction / add_transaction_safe call
Args(type, description, amount, date, card) ==
    [type |-> type, description |-> description, amount |-> amount,
     date |-> date, card |-> card, category |-> None, metadata |-> None]

Candidates ==
    { Args(Cash, Tea, 5500, DayOne, None),
      Args(Cash, TeaLoud, 5500, DayOneLate, None),
      Args(CardType, Tea, 5500, NoDate, Visa),
      Args(Cash, Blank, 5500, DayOne, None),
      Args(Cash, Tea, 0, DayOne, None),
      Args(<<"bank">>, Tea, 5500, DayOne, None) }

\* Dicts handed to import_transactions by an extractor; keys may be missing
Records ==
    { [type |-> Cash, description |-> Tea, amount |-> 5500, date |-> DayOne],
      [description |-> Tea, amount |-> 5500, card |-> Visa, category |-> Food],
      [type |-> Cash, description |-> Tea, amount |-> 0 - 1000, date |-> DayOne],
      [type |-> Cash, amount |-> 5500, date |-> DayOne] }

RECURSIVE SeqsUpTo(_, _)
SeqsUpTo(S, n) ==
    IF n = 0 THEN {<<>>}
    ELSE LET shorter == SeqsUpTo(S, n - 1)
         IN shorter \cup {Append(b, x) : b \in {t \in shorter : Len(t) = n - 1}, x \in S}

Batches == SeqsUpTo(Records, MaxBatch)

----------------------------------------------------------------------------
\* The transactions table (budget/models.py)

NoId == 0

Row(id, type, card, category, description, amount, timestamp, hash, source, metadata) ==
    [id |-> id, type |-> type, card |-> card, category |-> category,
     description |-> description, amount |-> amount, timestamp |-> timestamp,
     hash |-> hash, import_source |-> source, import_metadata |-> metadata]

NoTxn == Row(NoId, None, None, None, None, 0, NoDate, None, None, None)

SetMax(S) == CHOOSE x \in S : \A y \in S : y <= x

\* An id taken from the number of rows
NextIdByCount(rows) == Cardinality(rows) + 1

\* id = Column(Integer, primary_key=True, autoincrement=True) on SQLite is an
\* INTEGER PRIMARY KEY without the AUTOINCREMENT keyword: the new rowid is
\* one more than the largest rowid in the table
NextId(rows) == IF rows = {} THEN 1 ELSE SetMax({r.id : r \in rows}) + 1

\* An index on hash that is not unique
UniqueViolationOff(rows, txn) == FALSE

\* hash = Column(String, unique=True, index=True); NULLs do not collide
UniqueViolation(rows, txn) ==
    txn.hash # None /\ \E r \in rows : r.hash = txn.hash

\* A query that matches no row
FindByHashNothing(rows, h) == {}

\* A query that ignores the fingerprint
FindByHashAny(rows, h) == rows

\* A query that also matches the rows without a fingerprint
FindByHashOrNull(rows, h) == {r \in rows : r.hash = h \/ r.hash = None}

\* session.query(Transaction).filter_by(hash=txn_hash).first()
FindByHash(rows, h) == {r \in rows : r.hash = h}

\* The fingerprints a set of rows holds
Hashes(rows) == {r.hash : r \in rows} \ {None}

\* session.add(txn); flush: the row gets its id
InsertRow(rows, txn) == rows \cup {[txn EXCEPT !.id = NextId(rows)]}

\* The cards table and the balances table: a card has a unique name, a
\* balance has its type, "cash" or a card name, as its primary key
Wise == <<"Wise">>
ICICI == <<"ICICI">>
Amex == <<"Amex">>

Balance(type, amount) == [type |-> type, amount |-> amount]
Accounts(cards, balances) == [cards |-> cards, balances |-> balances]
NoAccounts == Accounts({}, {})

\* session.merge(Balance(type=..., amount=...)): the row with this primary
\* key is loaded and takes the amount of the given object; a row is added
\* when there is none
Merge(balances, b) == {x \in balances : x.type # b.type} \cup {b}

RECURSIVE MergeZero(_, _)
MergeZero(balances, names) ==
    IF names = {} THEN balances
    ELSE LET n == CHOOSE x \in names : TRUE
         IN MergeZero(Merge(balances, Balance(n, 0)), names \ {n})

\* CardManager.load_cards: merge a zero cash balance; with no card stored,
\* add the default cards; merge a zero balance for every card
LoadCards(acc) ==
    LET names == IF acc.cards = {} THEN {Wise, ICICI} ELSE acc.cards
    IN Accounts(names, MergeZero(Merge(acc.balances, Balance(Cash, 0)), names))

\* The tables after the first load_cards on an empty database
DefaultAccounts == LoadCards(NoAccounts)

\* json.dumps(metadata, sort_keys=True) of import_metadata or {}
serialize_import_metadata(m) ==
    IF m = None THEN <<"{", "}">> ELSE <<"{">> \o m \o <<"}">>

----------------------------------------------------------------------------
\* Results

ZeroStats(n) == [total |-> n, imported |-> 0, duplicates |-> 0, errors |-> 0]

NoRet ==
    [kind |-> "none", exc |-> "", msg |-> "", id |-> NoId, is_new |-> FALSE,
     value |-> FALSE, stats |-> ZeroStats(0)]

Raise(exc, msg) == [NoRet EXCEPT !.kind = "raise", !.exc = exc, !.msg = msg]
RetPair(id, is_new) == [NoRet EXCEPT !.kind = "pair", !.id = id, !.is_new = is_new]
RetId(id) == [NoRet EXCEPT !.kind = "id", !.id = id]
RetBool(b) == [NoRet EXCEPT !.kind = "bool", !.value = b]
RetStats(st) == [NoRet EXCEPT !.kind = "stats", !.stats = st]

Get(rec, key, default) == IF key \in DOMAIN rec THEN rec[key] ELSE default

\* Arguments of one set_spending_limit / check_spending_limit call
LimitArgs(limit_amount, period, category, source) ==
    [limit_amount |-> limit_amount, period |-> period, category |-> category,
     source |-> source]

\* The last spending-limit call: op is the method, impl the class it belongs
\* to, kind what came back (bool, dict, none or raise); spent, limit,
\* remaining and exceeded are the keys of a returned dict
NoLimitCall ==
    [op |-> "none", impl |-> "", args |-> LimitArgs(0, None, None, None),
     kind |-> "none", exc |-> "", msg |-> "",
     spent |-> 0, limit |-> 0, remaining |-> 0, exceeded |-> FALSE]

LimitCall(op, impl, args) == [NoLimitCall EXCEPT !.op = op, !.impl = impl, !.args = args]
LimitRaise(c, exc, msg) == [c EXCEPT !.kind = "raise", !.exc = exc, !.msg = msg]
LimitBool(c) == [c EXCEPT !.kind = "bool"]
LimitNone(c) == [c EXCEPT !.kind = "none"]
LimitDict(c, spent, limit, remaining, exceeded) ==
    [c EXCEPT !.kind = "dict", !.spent = spent, !.limit = limit,
              !.remaining = remaining, !.exceeded = exceeded]

----------------------------------------------------------------------------
\* State

VARIABLES
    store,      \* committed rows of the transactions table
    clock,      \* ticks of the wall clock since Epoch
    pc,         \* per caller of the Budget facade: position in its call
    call,       \* per caller: arguments and locals of its current or last call
    ret,        \* per caller: what its last completed call returned or raised
    session,    \* the BudgetManager session: open, holding unflushed-to-commit rows
    tmret,      \* what the last TransactionManager call returned or raised
    hist,       \* history: issued, the ids strict add has returned so far
    limits,     \* committed rows of the spending_limits table
    lret,       \* the last spending-limit call: its arguments and its result
    probe,      \* the inputs and outputs of the pure functions under test
    accounts,   \* committed rows of the cards table and of the balances table
    tz          \* hours the local time zone is ahead of UTC

vars == <<store, clock, pc, call, ret, session, tmret, hist, limits, lret, probe,
          accounts, tz>>

Now == ClockTime(clock)

\* datetime.utcnow()
UtcNow == AddHours(Now, 0 - tz)

\* timestamp = Column(DateTime, default=func.now()): SQLite's
\* CURRENT_TIMESTAMP, which is UTC
CurrentTimestamp(c) == AddHours(ClockTime(c), 0 - tz)

\* op: the facade method; batch, idx: its input and the item being processed;
\* date, txn: the locals of the running add_transaction_safe; stats, printed:
\* the counters and the standard output of import_transactions; repeat: this
\* safe add directly follows one of the same caller that stored an
\* equivalent candidate
NoCall ==
    [op |-> "none", batch |-> <<>>, idx |-> 0, source |-> Manual, date |-> NoDate,
     txn |-> NoTxn, stats |-> ZeroStats(0), printed |-> <<>>, repeat |-> FALSE,
     prev |-> NoId]

ClosedSession ==
    [open |-> FALSE, dirty |-> FALSE, rows |-> {}, limits |-> {},
     accounts |-> NoAccounts, cards |-> {}]

Init ==
    /\ store = {}
    /\ clock = 0
    /\ pc = [p \in Procs |-> "idle"]
    /\ call = [p \in Procs |-> NoCall]
    /\ ret = [p \in Procs |-> NoRet]
    /\ session = ClosedSession
    /\ tmret = NoRet
    /\ hist = [issued |-> {}]
    /\ limits = {}
    /\ lret = NoLimitCall
    /\ probe = <<>>
    /\ accounts = DefaultAccounts
    /\ tz = 0

\* A connection can write only while no other connection holds SQLite's
\* write lock; the session holds it from its first flush to commit/rollback
WriteLockFree == ~session.dirty

----------------------------------------------------------------------------
\* Budget facade: validation shared by add_transaction and add_transaction_safe

\* The validation without its check of the amount
BudgetValidateNoAmount(type, description, amount) ==
    IF Strip(description) = <<>> THEN "Description cannot be empty"
    ELSE IF type \notin {Cash, CardType} THEN "Type must be 'cash' or 'card'"
    ELSE ""

BudgetValidate(type, description, amount) ==
    IF Strip(description) = <<>> THEN "Description cannot be empty"
    ELSE IF amount <= 0 THEN "Amount must be positive"
    ELSE IF type \notin {Cash, CardType} THEN "Type must be 'cash' or 'card'"
    ELSE ""

\* Budget.add_transaction: validate, insert, commit, return the id
AddTransaction(p, a) ==
    LET err == BudgetValidate(a.type, a.description, a.amount)
        txn == Row(NoId, a.type, a.card, a.category, Strip(a.description), a.amount,
                   CurrentTimestamp(clock), None, Manual, None)
        id == NextId(store)
    IN /\ pc[p] = "idle"
       /\ call' = [call EXCEPT ![p] = [NoCall EXCEPT !.op = "add", !.batch = <<a>>, !.idx = 1]]
       /\ IF err # ""
          THEN /\ ret' = [ret EXCEPT ![p] = Raise("ValueError", err)]
               /\ UNCHANGED <<store, hist>>
          ELSE /\ WriteLockFree
               /\ id <= MaxId
               /\ store' = InsertRow(store, txn)
               /\ ret' = [ret EXCEPT ![p] = RetId(id)]
               /\ hist' = [hist EXCEPT !.issued = @ \cup {id}]
       /\ UNCHANGED <<accounts, tz, limits, lret, probe, clock, pc, session, tmret>>

\* A date argument that is ignored
EffectiveDateNow(a, now) == now

\* if date is None: date = datetime.now()
EffectiveDate(a, now) == IF a.date = NoDate THEN now ELSE a.date

\* Budget.add_transaction_safe up to and including the fingerprint lookup
SafeAddLookup(rows, a, src, now) ==
    LET err == BudgetValidate(a.type, a.description, a.amount)
        date == EffectiveDate(a, now)
        txn_hash == generate_transaction_hash(date, a.amount, a.description, a.card)
        existing == FindByHash(rows, txn_hash)
    IN IF err # ""
       THEN [kind |-> "raise", ret |-> Raise("ValueError", err), date |-> NoDate, txn |-> NoTxn]
       ELSE IF existing # {}
       THEN [kind |-> "found", ret |-> RetPair((CHOOSE r \in existing : TRUE).id, FALSE),
             date |-> date, txn |-> NoTxn]
       ELSE [kind |-> "miss", ret |-> NoRet, date |-> date,
             txn |-> Row(NoId, a.type, a.card, a.category, Strip(a.description), a.amount,
                         date, txn_hash, src, serialize_import_metadata(a.metadata))]

\* Statistics that leave failed items uncounted
CountOutcomeSkipErrors(st, r) ==
    IF r.kind = "raise" THEN st
    ELSE IF r.is_new THEN [st EXCEPT !.imported = @ + 1]
    ELSE [st EXCEPT !.duplicates = @ + 1]

\* How the statistics of import_transactions count one item's outcome
CountOutcome(st, r) ==
    IF r.kind = "raise" THEN [st EXCEPT !.errors = @ + 1]
    ELSE IF r.is_new THEN [st EXCEPT !.imported = @ + 1]
    ELSE [st EXCEPT !.duplicates = @ + 1]

\* Messages collected newest first
PrintOutcomeFront(printed, r) ==
    IF r.kind = "raise" THEN <<<<"Error importing transaction: ", r.msg>>>> \o printed
    ELSE printed

\* print(f"Error importing transaction: {e}")
PrintOutcome(printed, r) ==
    IF r.kind = "raise" THEN Append(printed, <<"Error importing transaction: ", r.msg>>)
    ELSE printed

\* A loop that a failed item ends
AfterItemAbort(cur, r) ==
    IF r.kind = "raise" \/ cur.idx = Len(cur.batch) THEN "idle" ELSE "item"

\* Where the loop of import_transactions goes after an item with outcome r:
\* on to the next item, whatever r was, until the list is exhausted
AfterItem(cur, r) == IF cur.idx = Len(cur.batch) THEN "idle" ELSE "item"

\* The outcome r of the safe add that p was running goes to its caller:
\* the user of add_transaction_safe, or the loop of import_transactions.
\* cur is p's call record in this step.
Finish(p, cur, r) ==
    IF cur.op = "import"
    THEN LET st == CountOutcome(cur.stats, r)
             last == cur.idx = Len(cur.batch)
         IN /\ call' = [call EXCEPT ![p] = [cur EXCEPT !.stats = st,
                                                      !.printed = PrintOutcome(@, r),
                                                      !.idx = @ + 1,
                                                      !.date = NoDate,
                                                      !.txn = NoTxn]]
            /\ pc' = [pc EXCEPT ![p] = AfterItem(cur, r)]
            /\ ret' = [ret EXCEPT ![p] = IF last THEN RetStats(st) ELSE @]
            /\ UNCHANGED hist
    ELSE /\ call' = [call EXCEPT ![p] = cur]
         /\ pc' = [pc EXCEPT ![p] = "idle"]
         /\ ret' = [ret EXCEPT ![p] = r]
         /\ UNCHANGED hist

\* The lookup found nothing: p goes on to insert the Transaction it built
GoInsert(p, cur, lk) ==
    /\ call' = [call EXCEPT ![p] = [cur EXCEPT !.date = lk.date, !.txn = lk.txn]]
    /\ pc' = [pc EXCEPT ![p] = "insert"]
    /\ ret' = [ret EXCEPT ![p] = IF cur.op = "import" THEN @ ELSE NoRet]
    /\ UNCHANGED hist

\* Two candidates name the same event: same calendar day, amount,
\* description and card (text compared as the fingerprint normalises it)
SameDay(d1, d2) == d1.year = d2.year /\ d1.month = d2.month /\ d1.day = d2.day
SameText(x, y) ==
    (IF Truthy(x) THEN Strip(Lower(x)) ELSE <<>>) = (IF Truthy(y) THEN Strip(Lower(y)) ELSE <<>>)
Equivalent(a1, date1, a2, date2) ==
    /\ SameDay(date1, date2)
    /\ a1.amount = a2.amount
    /\ SameText(a1.description, a2.description)
    /\ SameText(a1.card, a2.card)

\* p's last call was a safe add that stored a new row for a candidate
\* equivalent to a
FollowsOwnInsert(p, a) ==
    /\ call[p].op = "safe"
    /\ pc[p] = "idle"
    /\ ret[p].kind = "pair"
    /\ ret[p].is_new
    /\ Equivalent(call[p].batch[1], call[p].date, a, EffectiveDate(a, Now))

\* Budget.add_transaction_safe, called directly: validation and lookup
AddTransactionSafe(p, a) ==
    LET cur == [NoCall EXCEPT !.op = "safe", !.batch = <<a>>, !.idx = 1,
                              !.repeat = FollowsOwnInsert(p, a),
                              !.prev = IF FollowsOwnInsert(p, a) THEN ret[p].id ELSE NoId]
        lk == SafeAddLookup(store, a, Manual, Now)
    IN /\ pc[p] = "idle"
       /\ IF lk.kind = "miss" THEN GoInsert(p, cur, lk)
          ELSE Finish(p, [cur EXCEPT !.date = lk.date], lk.ret)
       /\ UNCHANGED <<accounts, tz, limits, lret, probe, store, clock, session, tmret>>

\* Budget.import_transactions: the call, up to the first iteration
ImportTransactions(p, b) ==
    LET cur == [NoCall EXCEPT !.op = "import", !.batch = b, !.idx = 1,
                              !.source = Pdf, !.stats = ZeroStats(Len(b))]
    IN /\ pc[p] = "idle"
       /\ call' = [call EXCEPT ![p] = cur]
       /\ pc' = [pc EXCEPT ![p] = IF b = <<>> THEN "idle" ELSE "item"]
       /\ ret' = [ret EXCEPT ![p] = IF b = <<>> THEN RetStats(cur.stats) ELSE NoRet]
       /\ UNCHANGED <<accounts, tz, limits, lret, probe, store, clock, session, tmret, hist>>

\* The keyword arguments import_transactions builds from one dict
ImportArgs(rec) ==
    [type |-> Get(rec, "type", CardType), description |-> rec.description,
     amount |-> rec.amount, date |-> Get(rec, "date", NoDate),
     card |-> Get(rec, "card", None), category |-> Get(rec, "category", None),
     metadata |-> Get(rec, "metadata", None)]

\* One iteration of import_transactions, up to the lookup of its safe add
ImportItem(p) ==
    LET cur == call[p]
        rec == cur.batch[cur.idx]
    IN /\ pc[p] = "item"
       /\ IF "description" \notin DOMAIN rec
          THEN Finish(p, cur, Raise("KeyError", "'description'"))
          ELSE IF "amount" \notin DOMAIN rec
          THEN Finish(p, cur, Raise("KeyError", "'amount'"))
          ELSE LET lk == SafeAddLookup(store, ImportArgs(rec), cur.source, Now)
               IN IF lk.kind = "miss" THEN GoInsert(p, cur, lk)
                  ELSE Finish(p, [cur EXCEPT !.date = lk.date], lk.ret)
       /\ UNCHANGED <<accounts, tz, limits, lret, probe, store, clock, session, tmret>>

\* session.add(txn); session.commit(): the row is stored, or the unique
\* index on hash rejects it with IntegrityError and the session rolls back
SafeAddInsert(p) ==
    LET txn == call[p].txn
        id == NextId(store)
    IN /\ pc[p] = "insert"
       /\ WriteLockFree
       /\ IF UniqueViolation(store, txn)
          THEN /\ pc' = [pc EXCEPT ![p] = "requery"]
               /\ UNCHANGED <<store, call, ret, hist>>
          ELSE /\ id <= MaxId
               /\ store' = InsertRow(store, txn)
               /\ Finish(p, call[p], RetPair(id, TRUE))
       /\ UNCHANGED <<accounts, tz, limits, lret, probe, clock, session, tmret>>

\* except IntegrityError: query the fingerprint again
SafeAddRequery(p) ==
    LET existing == FindByHash(store, call[p].txn.hash)
        id == IF existing # {} THEN (CHOOSE r \in existing : TRUE).id ELSE NoId
    IN /\ pc[p] = "requery"
       /\ Finish(p, call[p], RetPair(id, FALSE))
       /\ UNCHANGED <<accounts, tz, limits, lret, probe, store, clock, session, tmret>>

\* The process running import_transactions is stopped between two steps
ImportInterrupt(p) ==
    /\ call[p].op = "import"
    /\ pc[p] # "idle"
    /\ pc' = [pc EXCEPT ![p] = "idle"]
    /\ call' = [call EXCEPT ![p] = [NoCall EXCEPT !.op = "import"]]
    /\ ret' = [ret EXCEPT ![p] = Raise("KeyboardInterrupt", "")]
    /\ UNCHANGED <<accounts, tz, limits, lret, probe, store, clock, session, tmret, hist>>

\* Budget.delete_transaction
DeleteTransaction(p, id) ==
    LET found == {r \in store : r.id = id}
    IN /\ pc[p] = "idle"
       /\ call' = [call EXCEPT ![p] = [NoCall EXCEPT !.op = "delete"]]
       /\ IF found # {}
          THEN /\ WriteLockFree
               /\ store' = store \ found
               /\ ret' = [ret EXCEPT ![p] = RetBool(TRUE)]
          ELSE /\ ret' = [ret EXCEPT ![p] = RetBool(FALSE)]
               /\ UNCHANGED store
       /\ UNCHANGED <<accounts, tz, limits, lret, probe, clock, pc, session, tmret, hist>>

\* Keyword arguments of update_transaction calls: a key that is missing is
\* an argument left at None
Edits ==
    { [amount |-> 7000],
      [description |-> <<"P", "i", "e">>, category |-> Food],
      [type |-> Cash],
      [type |-> CardType, card |-> <<"A", "m", "e", "x">>],
      [description |-> Blank, amount |-> 0],
      [type |-> <<"bank">>, amount |-> 0] }

\* An edit that recomputes the fingerprint from the edited fields
ApplyEditRehash(txn, e) ==
    LET amount == Get(e, "amount", txn.amount)
        description == Get(e, "description", txn.description)
    IN [txn EXCEPT !.amount = amount, !.description = description,
                   !.hash = generate_transaction_hash(txn.timestamp, amount,
                                                      description, txn.card)]

\* Budget.update_transaction: the assignments to the row it found
ApplyEdit(txn, e) ==
    LET t1 == IF "type" \in DOMAIN e
              THEN [txn EXCEPT !.type = e.type,
                               !.card = IF e.type = Cash THEN None ELSE @]
              ELSE txn
        t2 == IF "card" \in DOMAIN e /\ t1.type # Cash
              THEN [t1 EXCEPT !.card = e.card] ELSE t1
        t3 == IF "description" \in DOMAIN e /\ Strip(e.description) # <<>>
              THEN [t2 EXCEPT !.description = Strip(e.description)] ELSE t2
        t4 == IF "amount" \in DOMAIN e THEN [t3 EXCEPT !.amount = e.amount] ELSE t3
    IN IF "category" \in DOMAIN e THEN [t4 EXCEPT !.category = e.category] ELSE t4

\* Budget.update_transaction: the checks it makes on the way
EditError(e) ==
    IF "type" \in DOMAIN e /\ e.type \notin {Cash, CardType}
    THEN "Type must be 'cash' or 'card'"
    ELSE IF "amount" \in DOMAIN e /\ e.amount <= 0 THEN "Amount must be positive"
    ELSE ""

\* Budget.update_transaction: find the row, edit it, commit; a ValueError
\* leaves the session before the commit
UpdateTransaction(p, id, e) ==
    LET found == {r \in store : r.id = id}
        txn == CHOOSE r \in found : TRUE
    IN /\ pc[p] = "idle"
       /\ call' = [call EXCEPT ![p] = [NoCall EXCEPT !.op = "update"]]
       /\ IF found = {}
          THEN /\ ret' = [ret EXCEPT ![p] = RetBool(FALSE)]
               /\ UNCHANGED store
          ELSE IF EditError(e) # ""
          THEN /\ ret' = [ret EXCEPT ![p] = Raise("ValueError", EditError(e))]
               /\ UNCHANGED store
          ELSE /\ ApplyEdit(txn, e) # txn => WriteLockFree
               /\ store' = (store \ found) \cup {ApplyEdit(txn, e)}
               /\ ret' = [ret EXCEPT ![p] = RetBool(TRUE)]
       /\ UNCHANGED <<accounts, tz, limits, lret, probe, clock, pc, session, tmret, hist>>

\* Time passes
Tick ==
    /\ clock < MaxTicks
    /\ clock' = clock + 1
    /\ UNCHANGED <<accounts, tz, limits, lret, probe, store, pc, call, ret, session, tmret, hist>>

----------------------------------------------------------------------------
\* BudgetManager session and TransactionManager (budget/core)

SessionView == IF session.dirty THEN session.rows ELSE store
LimitView == IF session.dirty THEN session.limits ELSE limits
AccountView == IF session.dirty THEN session.accounts ELSE accounts

\* BudgetManager.__enter__: a new session, in which load_cards runs and
\* flushes what it changed; cards is the list the CardManager keeps
SessionOpen ==
    LET loaded == LoadCards(accounts)
        dirty == loaded # accounts
    IN
    /\ ~session.open
    /\ session' = [open |-> TRUE, dirty |-> dirty,
                   rows |-> IF dirty THEN store ELSE {},
                   limits |-> IF dirty THEN limits ELSE {},
                   accounts |-> IF dirty THEN loaded ELSE NoAccounts,
                   cards |-> loaded.cards]
    /\ UNCHANGED <<accounts, tz, limits, lret, probe, store, clock, pc, call, ret, tmret, hist>>

\* The validation without its check of the type
TmValidateNoType(t_type, description, amount) ==
    IF description = None \/ description = <<>> \/ Strip(description) = <<>>
    THEN "Description cannot be empty"
    ELSE IF amount <= 0 THEN "Amount must be positive"
    ELSE ""

\* TransactionManager.add_transaction: the checks before the insert
TmValidate(t_type, description, amount) ==
    IF description = None \/ description = <<>> \/ Strip(description) = <<>>
    THEN "Description cannot be empty"
    ELSE IF amount <= 0 THEN "Amount must be positive"
    ELSE IF t_type \notin {Cash, CardType} THEN "Transaction type must be 'cash' or 'card'"
    ELSE ""

\* TransactionManager.add_transaction: add and flush; on ValidationError the
\* session is rolled back
TmAddTransaction(a) ==
    LET err == TmValidate(a.type, a.description, a.amount)
        new_transaction == Row(NoId, a.type, a.card, a.category, Strip(a.description),
                               a.amount, CurrentTimestamp(clock), None, None, None)
        id == NextId(SessionView)
    IN /\ session.open
       /\ IF err # ""
          THEN /\ session' = [session EXCEPT !.dirty = FALSE, !.rows = {}, !.limits = {},
                                             !.accounts = NoAccounts]
               /\ tmret' = Raise("ValidationError", err)
               /\ UNCHANGED hist
          ELSE /\ id <= MaxId
               /\ session' = [session EXCEPT !.dirty = TRUE,
                                             !.rows = InsertRow(SessionView, new_transaction),
                                             !.limits = LimitView,
                                             !.accounts = AccountView]
               /\ tmret' = RetId(id)
               /\ hist' = [hist EXCEPT !.issued = @ \cup {id}]
       /\ UNCHANGED <<accounts, tz, limits, lret, probe, store, clock, pc, call, ret>>

\* TransactionManager.update_transaction: the checks it makes on the way; a
\* type that is blank counts as not given
TmEditError(e) ==
    IF "type" \in DOMAIN e /\ Strip(e.type) # <<>> /\ e.type \notin {Cash, CardType}
    THEN "Transaction type must be 'cash' or 'card'"
    ELSE IF "amount" \in DOMAIN e /\ e.amount <= 0 THEN "Amount must be positive"
    ELSE ""

\* TransactionManager.update_transaction: the assignments to the row it found
TmApplyEdit(txn, e) ==
    LET t1 == IF "type" \in DOMAIN e /\ Strip(e.type) # <<>>
              THEN [txn EXCEPT !.type = Strip(e.type),
                               !.card = IF Strip(e.type) = Cash THEN None ELSE @]
              ELSE txn
        t2 == IF "card" \in DOMAIN e /\ t1.type # Cash
              THEN [t1 EXCEPT !.card = e.card] ELSE t1
        t3 == IF "description" \in DOMAIN e /\ Strip(e.description) # <<>>
              THEN [t2 EXCEPT !.description = Strip(e.description)] ELSE t2
        t4 == IF "amount" \in DOMAIN e THEN [t3 EXCEPT !.amount = e.amount] ELSE t3
    IN IF "category" \in DOMAIN e THEN [t4 EXCEPT !.category = e.category] ELSE t4

\* TransactionManager.update_transaction: the flag updated
TmUpdated(txn, e) ==
    \/ "type" \in DOMAIN e /\ Strip(e.type) # <<>>
    \/ "card" \in DOMAIN e /\ TmApplyEdit(txn, [x \in DOMAIN e \ {"card"} |-> e[x]]).type # Cash
    \/ "description" \in DOMAIN e /\ Strip(e.description) # <<>>
    \/ "amount" \in DOMAIN e
    \/ "category" \in DOMAIN e

\* TransactionManager.update_transaction: find the row in the session, edit
\* and flush it; a ValidationError rolls the session back
TmUpdateTransaction(id, e) ==
    LET found == {r \in SessionView : r.id = id}
        txn == CHOOSE r \in found : TRUE
        rows == (SessionView \ found) \cup {TmApplyEdit(txn, e)}
    IN /\ session.open
       /\ IF found = {}
          THEN /\ tmret' = RetBool(FALSE)
               /\ UNCHANGED session
          ELSE IF TmEditError(e) # ""
          THEN /\ session' = [session EXCEPT !.dirty = FALSE, !.rows = {}, !.limits = {},
                                             !.accounts = NoAccounts]
               /\ tmret' = Raise("ValidationError", TmEditError(e))
          ELSE /\ tmret' = RetBool(TmUpdated(txn, e))
               /\ IF rows = SessionView THEN UNCHANGED session
                  ELSE session' = [session EXCEPT !.dirty = TRUE, !.rows = rows,
                                                  !.limits = LimitView,
                                                  !.accounts = AccountView]
       /\ UNCHANGED <<accounts, tz, limits, lret, probe, store, clock, pc, call, ret, hist>>

\* BalanceManager.update_balance: set the amount of the balance, or add the
\* balance when there is none; is_number is isinstance(amount, (int, float))
TmUpdateBalance(type, amount, is_number) ==
    LET balances == Merge(AccountView.balances, Balance(type, amount))
    IN /\ session.open
       /\ IF ~is_number
          THEN /\ session' = [session EXCEPT !.dirty = FALSE, !.rows = {}, !.limits = {},
                                             !.accounts = NoAccounts]
               /\ tmret' = Raise("ValidationError", "Amount must be a number")
          ELSE /\ tmret' = NoRet
               /\ IF balances = AccountView.balances THEN UNCHANGED session
                  ELSE session' = [session EXCEPT
                                     !.dirty = TRUE, !.rows = SessionView,
                                     !.limits = LimitView,
                                     !.accounts = [AccountView EXCEPT !.balances = balances]]
       /\ UNCHANGED <<accounts, tz, limits, lret, probe, store, clock, pc, call, ret, hist>>

\* CardManager.add_new_card: a name that is not in the list of cards is
\* added as a card, a zero balance is merged for it, and the list grows; the
\* unique index on the card name answers a name the table holds already
TmAddNewCard(name) ==
    LET n == Strip(name)
    IN /\ session.open
       /\ IF ~Truthy(name) \/ n = <<>>
          THEN /\ session' = [session EXCEPT !.dirty = FALSE, !.rows = {}, !.limits = {},
                                             !.accounts = NoAccounts]
               /\ tmret' = Raise("ValidationError", "Card name cannot be empty")
          ELSE IF n \in session.cards
          THEN /\ tmret' = RetBool(FALSE)
               /\ UNCHANGED session
          ELSE IF n \in AccountView.cards
          THEN /\ session' = [session EXCEPT !.dirty = FALSE, !.rows = {}, !.limits = {},
                                             !.accounts = NoAccounts]
               /\ tmret' = RetBool(FALSE)
          ELSE /\ session' = [session EXCEPT
                                 !.dirty = TRUE, !.rows = SessionView, !.limits = LimitView,
                                 !.accounts = Accounts(AccountView.cards \cup {n},
                                                       Merge(AccountView.balances,
                                                             Balance(n, 0))),
                                 !.cards = @ \cup {n}]
               /\ tmret' = RetBool(TRUE)
       /\ UNCHANGED <<accounts, tz, limits, lret, probe, store, clock, pc, call, ret, hist>>

\* BudgetManager.__exit__ without an exception: commit
SessionCommit ==
    /\ session.open
    /\ store' = SessionView
    /\ limits' = LimitView
    /\ accounts' = AccountView
    /\ session' = ClosedSession
    /\ UNCHANGED <<tz, lret, probe, clock, pc, call, ret, tmret, hist>>

\* BudgetManager.__exit__ with an exception: rollback
SessionRollback ==
    /\ session.open
    /\ session' = ClosedSession
    /\ UNCHANGED <<accounts, tz, limits, lret, probe, store, clock, pc, call, ret, tmret, hist>>

----------------------------------------------------------------------------
\* Spending limits: the spending_limits table (budget/models.py), the Budget
\* facade (budget/budget.py) and LimitManager (budget/core/limits.py)

Daily == <<"daily">>
Weekly == <<"weekly">>
Monthly == <<"monthly">>
Yearly == <<"yearly">>
Hourly == <<"hourly">>
Periods == {Daily, Weekly, Monthly, Yearly}

SpendingLimit(id, category, source, limit_amount, period) ==
    [id |-> id, category |-> category, source |-> source,
     limit_amount |-> limit_amount, period |-> period]

\* session.add(limit); flush: the row gets its id
InsertLimit(rows, limit) == rows \cup {[limit EXCEPT !.id = NextId(rows)]}

\* query.first() without ORDER BY: SQLite scans the table in rowid order
First(rows) ==
    IF rows = {} THEN {} ELSE {CHOOSE r \in rows : \A q \in rows : r.id <= q.id}

Max(x, y) == IF x >= y THEN x ELSE y

RECURSIVE SumAmounts(_)
SumAmounts(rows) ==
    IF rows = {} THEN 0
    ELSE LET r == CHOOSE x \in rows : TRUE IN r.amount + SumAmounts(rows \ {r})

\* The policies the user sets and the questions the user asks
LimitPolicies ==
    { LimitArgs(5000, Monthly, Food, None),
      LimitArgs(9000, Monthly, Food, None),
      LimitArgs(9000, Weekly, None, Visa),
      LimitArgs(9000, Yearly, None, None),
      LimitArgs(0, Monthly, None, None),
      LimitArgs(5000, Hourly, Food, None) }

LimitQueries ==
    { LimitArgs(0, Monthly, Food, None),
      LimitArgs(0, Monthly, None, None),
      LimitArgs(0, Monthly, None, Visa),
      LimitArgs(0, Weekly, None, Visa),
      LimitArgs(0, Weekly, None, Cash),
      LimitArgs(0, Yearly, None, None),
      LimitArgs(0, Yearly, Food, None),
      LimitArgs(0, Daily, Food, None),
      LimitArgs(0, Daily, None, Cash),
      LimitArgs(0, Hourly, Food, None) }

\* Transactions with a category and a date: in February, on the first day
\* of March, and on the last day of January
DayAfter == [year |-> 2025, month |-> 3, day |-> 1, hour |-> 9]
MonthBefore == [year |-> 2025, month |-> 1, day |-> 31, hour |-> 21]

Spends ==
    { [Args(Cash, Tea, 5500, DayOne, None) EXCEPT !.category = Food],
      [Args(CardType, Tea, 5500, DayAfter, Visa) EXCEPT !.category = Food],
      Args(Cash, Tea, 5500, MonthBefore, None) }

\* The tables that safe adds of up to MaxId of these transactions, made one
\* after another at Epoch, leave behind
RECURSIVE StoredBy(_)
StoredBy(b) ==
    IF b = <<>> THEN {}
    ELSE LET rows == StoredBy(SubSeq(b, 1, Len(b) - 1))
             lk == SafeAddLookup(rows, b[Len(b)], Manual, Epoch)
         IN IF lk.kind = "miss" THEN InsertRow(rows, lk.txn) ELSE rows

SpendTables == {StoredBy(b) : b \in SeqsUpTo(Spends, MaxId)}

PeriodMessage == "Period must be daily, weekly, monthly, or yearly"

\* Budget.set_spending_limit: check the period, add a row, commit
SetSpendingLimit(a) ==
    LET c == LimitCall("set", "Budget", a)
        limit == SpendingLimit(NoId, a.category, a.source, a.limit_amount, a.period)
    IN /\ IF a.period \notin Periods
          THEN /\ lret' = LimitRaise(c, "ValueError", PeriodMessage)
               /\ UNCHANGED limits
          ELSE /\ WriteLockFree
               /\ NextId(limits) <= MaxLimits
               /\ limits' = InsertLimit(limits, limit)
               /\ lret' = LimitBool(c)
       /\ UNCHANGED <<accounts, tz, probe, store, clock, pc, call, ret, session, tmret, hist>>

\* The category and source conditions both implementations add to the
\* transaction query: each only when its argument is set; the source "cash"
\* selects by type, any other source by card
MatchesFilters(t, category, source) ==
    /\ Truthy(category) => t.category = category
    /\ Truthy(source) => IF source = Cash THEN t.type = Cash ELSE t.card = source

\* Budget.check_spending_limit: the query for the limit; category and source
\* are filtered on only when they are set
BudgetFindLimit(rows, category, source, period) ==
    First({l \in rows : /\ l.period = period
                        /\ Truthy(category) => l.category = category
                        /\ Truthy(source) => l.source = source})

\* Budget.check_spending_limit: the start of the period of now
BudgetStartDate(period, now) ==
    CASE period = Daily -> MinTime(now)
      [] period = Weekly -> MinTime(AddDays(now, 0 - Weekday(now)))
      [] period = Monthly -> MinTime([now EXCEPT !.day = 1])
      [] OTHER -> MinTime([now EXCEPT !.month = 1, !.day = 1])

\* Budget.check_spending_limit: the transactions it sums
BudgetCounted(rows, a, now) ==
    {t \in rows : /\ DtLeq(BudgetStartDate(a.period, now), t.timestamp)
                  /\ MatchesFilters(t, a.category, a.source)}

BudgetRemaining(limit_amount, spent) == Max(0, limit_amount - spent)

\* Budget.check_spending_limit: what it returns over a table of limits and a
\* table of transactions
BudgetCheckResult(limit_rows, rows, a, now) ==
    LET c == LimitCall("check", "Budget", a)
        found == BudgetFindLimit(limit_rows, a.category, a.source, a.period)
        limit == CHOOSE l \in found : TRUE
        spent == SumAmounts(BudgetCounted(rows, a, now))
    IN IF found = {}
       THEN LimitDict(c, 0, 0, 0, FALSE)
       ELSE LimitDict(c, spent, limit.limit_amount,
                      BudgetRemaining(limit.limit_amount, spent),
                      spent > limit.limit_amount)

\* Budget.check_spending_limit, in a session of its own
CheckSpendingLimit(a) ==
    /\ lret' = BudgetCheckResult(limits, store, a, Now)
    /\ UNCHANGED <<accounts, tz, limits, probe, store, clock, pc, call, ret, session, tmret, hist>>

\* LimitManager.set_spending_limit: the checks before the lookup
TmLimitValidate(limit_amount, period) ==
    IF limit_amount <= 0 THEN "Limit amount must be positive"
    ELSE IF period \notin Periods THEN PeriodMessage
    ELSE ""

\* filter_by(category=category, source=source, period=period).first(); an
\* argument of None compares with IS NULL
TmFindLimit(rows, category, source, period) ==
    First({l \in rows : l.category = category /\ l.source = source /\ l.period = period})

\* LimitManager.set_spending_limit: update the row of the triple or add one,
\* flush; on ValidationError the session is rolled back. An UPDATE is sent
\* only when the amount changes
TmSetSpendingLimit(a) ==
    LET c == LimitCall("set", "LimitManager", a)
        err == TmLimitValidate(a.limit_amount, a.period)
        found == TmFindLimit(LimitView, a.category, a.source, a.period)
        limit == CHOOSE l \in found : TRUE
        new_limit == SpendingLimit(NoId, a.category, a.source, a.limit_amount, a.period)
    IN /\ session.open
       /\ IF err # ""
          THEN /\ session' = [session EXCEPT !.dirty = FALSE, !.rows = {}, !.limits = {},
                                             !.accounts = NoAccounts]
               /\ lret' = LimitRaise(c, "ValidationError", err)
          ELSE IF found # {}
          THEN /\ session' =
                     IF limit.limit_amount = a.limit_amount THEN session
                     ELSE [session EXCEPT
                             !.dirty = TRUE, !.rows = SessionView,
                             !.accounts = AccountView,
                             !.limits = (LimitView \ found)
                                 \cup {[limit EXCEPT !.limit_amount = a.limit_amount]}]
               /\ lret' = LimitBool(c)
          ELSE /\ NextId(LimitView) <= MaxLimits
               /\ session' = [session EXCEPT !.dirty = TRUE, !.rows = SessionView,
                                             !.accounts = AccountView,
                                             !.limits = InsertLimit(LimitView, new_limit)]
               /\ lret' = LimitBool(c)
       /\ UNCHANGED <<accounts, tz, limits, probe, store, clock, pc, call, ret, tmret, hist>>

\* LimitManager.check_spending_limit: the first and the last instant of the
\* period of today
TmStartDate(period, today) ==
    CASE period = Monthly -> MinTime([today EXCEPT !.day = 1])
      [] period = Weekly -> MinTime(AddDays(today, 0 - Weekday(today)))
      [] period = Daily -> MinTime(today)
      [] OTHER -> MinTime([today EXCEPT !.month = 1, !.day = 1])

TmEndDate(period, today) ==
    CASE period = Monthly ->
           MaxTime(PrevDay([AddDays(TmStartDate(period, today), 32) EXCEPT !.day = 1]))
      [] period = Weekly -> MaxTime(AddDays(TmStartDate(period, today), 6))
      [] period = Daily -> MaxTime(today)
      [] OTHER -> MaxTime([today EXCEPT !.month = 12, !.day = 31])

\* LimitManager.check_spending_limit: the transactions it sums
TmCounted(rows, a, today) ==
    {t \in rows : /\ DtLeq(TmStartDate(a.period, today), t.timestamp)
                  /\ DtLeq(t.timestamp, TmEndDate(a.period, today))
                  /\ MatchesFilters(t, a.category, a.source)}

TmRemaining(limit_amount, spent) == limit_amount - spent

\* LimitManager.check_spending_limit: what it returns over a table of limits
\* and a table of transactions (the percentage key of its dict is not
\* modelled)
TmCheckResult(limit_rows, rows, a, today) ==
    LET c == LimitCall("check", "LimitManager", a)
        found == TmFindLimit(limit_rows, a.category, a.source, a.period)
        limit == CHOOSE l \in found : TRUE
        current_spending == SumAmounts(TmCounted(rows, a, today))
    IN IF found = {} \/ a.period \notin Periods
       THEN LimitNone(c)
       ELSE LimitDict(c, current_spending, limit.limit_amount,
                      TmRemaining(limit.limit_amount, current_spending),
                      current_spending > limit.limit_amount)

\* LimitManager.check_spending_limit, in the BudgetManager session
TmCheckSpendingLimit(a) ==
    /\ session.open
    /\ lret' = TmCheckResult(LimitView, SessionView, a, UtcNow)
    /\ UNCHANGED <<accounts, tz, limits, probe, store, clock, pc, call, ret, session, tmret, hist>>

----------------------------------------------------------------------------

StrictCandidates == {a \in Candidates : a.date = DayOne}

\* Candidates that pass validation, and the ones a rival or the user adds
ValidCandidates == {a \in Candidates : BudgetValidate(a.type, a.description, a.amount) = ""}
RivalCandidates == {a \in ValidCandidates : a.date = DayOne}

\* Roles: the last process is the user who edits the table by hand, the
\* others call the ingestion engine; the first of them is the caller whose
\* calls are followed, the second its rival
User == NumProcs
Callers == Procs \ {User}
Main == CHOOSE p \in Callers : \A q \in Callers : p <= q
Rival == CHOOSE p \in Callers \ {Main} : \A q \in Callers \ {Main} : p <= q

SafeAddSteps ==
    \/ \E p \in Procs : SafeAddInsert(p)
    \/ \E p \in Procs : SafeAddRequery(p)

\* The deduplicating ingestion engine and the direct user actions around it
Next ==
    \/ \E a \in Candidates : AddTransactionSafe(Main, a)
    \/ \E a \in RivalCandidates : AddTransactionSafe(Rival, a)
    \/ SafeAddSteps
    \/ \E id \in 1..MaxId : DeleteTransaction(User, id)
    \/ Tick

Spec == Init /\ [][Next]_vars

\* Safe adds only, by every process: rows are only ever added
NextRace ==
    \/ \E p \in Procs, a \in ValidCandidates : AddTransactionSafe(p, a)
    \/ SafeAddSteps
    \/ Tick

SpecRace == Init /\ [][NextRace]_vars

\* Strict add through the Budget facade and through a BudgetManager session
NextStrict ==
    \/ \E a \in StrictCandidates : AddTransaction(Main, a)
    \/ \E id \in 1..MaxId : DeleteTransaction(User, id)
    \/ SessionOpen
    \/ \E a \in StrictCandidates : TmAddTransaction(a)
    \/ SessionCommit
    \/ SessionRollback

SpecStrict == Init /\ [][NextStrict]_vars

\* A batch import running beside the user, who enters a transaction by hand
\* (through safe add) and deletes rows
NextImport ==
    \/ \E b \in Batches : ImportTransactions(Main, b)
    \/ ImportItem(Main)
    \/ ImportInterrupt(Main)
    \/ SafeAddSteps
    \/ \E a \in RivalCandidates : AddTransactionSafe(User, a)
    \/ \E id \in 1..MaxId : DeleteTransaction(User, id)
    \/ Tick

SpecImport == Init /\ [][NextImport]_vars

\* Safe adds by one caller while the user edits the stored rows
NextEdit ==
    \/ \E a \in ValidCandidates : AddTransactionSafe(Main, a)
    \/ \E p \in Procs : SafeAddInsert(p)
    \/ \E id \in 1..MaxId, e \in Edits : UpdateTransaction(User, id, e)
    \/ Tick

SpecEdit == Init /\ [][NextEdit]_vars

\* Spending limits set and checked through the Budget facade and through a
\* BudgetManager session, over a table of transactions stored earlier, while
\* time passes
InitLimits ==
    /\ store \in SpendTables
    /\ clock = 0
    /\ pc = [p \in Procs |-> "idle"]
    /\ call = [p \in Procs |-> NoCall]
    /\ ret = [p \in Procs |-> NoRet]
    /\ session = ClosedSession
    /\ tmret = NoRet
    /\ hist = [issued |-> {}]
    /\ limits = {}
    /\ lret = NoLimitCall
    /\ probe = <<>>
    /\ accounts = DefaultAccounts
    /\ tz = 0

NextLimits ==
    \/ \E a \in LimitPolicies : SetSpendingLimit(a)
    \/ \E a \in LimitQueries : CheckSpendingLimit(a)
    \/ SessionOpen
    \/ \E a \in LimitPolicies : TmSetSpendingLimit(a)
    \/ \E a \in LimitQueries : TmCheckSpendingLimit(a)
    \/ SessionCommit
    \/ Tick

SpecLimits == InitLimits /\ [][NextLimits]_vars

\* The fingerprint function on its own: two candidates, each a date, an
\* amount, a description and a card, are drawn and fingerprinted
VisaLoud == <<"V", "I", "S", "A", " ">>
Pie == <<"P", "i", "e">>

HashArgs ==
    [date : {DayOne, DayOneLate, DayAfter},
     amount : {5500, 5504, 5510},
     description : {Tea, TeaLoud, Pie},
     card : {None, <<>>, Visa, VisaLoud}]

InitHash ==
    /\ store = {}
    /\ clock = 0
    /\ pc = [p \in Procs |-> "idle"]
    /\ call = [p \in Procs |-> NoCall]
    /\ ret = [p \in Procs |-> NoRet]
    /\ session = ClosedSession
    /\ tmret = NoRet
    /\ hist = [issued |-> {}]
    /\ limits = {}
    /\ lret = NoLimitCall
    /\ accounts = DefaultAccounts
    /\ tz = 0
    /\ probe \in [x : HashArgs, y : HashArgs, done : {FALSE},
                  sx : {<<>>}, sy : {<<>>}, hx : {<<>>}, hy : {<<>>}]

\* generate_transaction_hash applied to both candidates: s is the string
\* that is hashed, h the fingerprint
Fingerprint ==
    /\ ~probe.done
    /\ probe' =
         [probe EXCEPT
            !.done = TRUE,
            !.sx = HashInput(probe.x.date, probe.x.amount, probe.x.description, probe.x.card),
            !.sy = HashInput(probe.y.date, probe.y.amount, probe.y.description, probe.y.card),
            !.hx = generate_transaction_hash(probe.x.date, probe.x.amount,
                                             probe.x.description, probe.x.card),
            !.hy = generate_transaction_hash(probe.y.date, probe.y.amount,
                                             probe.y.description, probe.y.card)]
    /\ UNCHANGED <<accounts, tz, limits, lret, store, clock, pc, call, ret, session, tmret, hist>>

NextHash == Fingerprint

SpecHash == InitHash /\ [][NextHash]_vars

\* The fingerprint of candidates whose description or card holds the
\* delimiter "|"
DelimArgs ==
    [date : {DayOne, DayAfter},
     amount : {5500, 5510},
     description : {<<"a">>, <<"a", "b">>, <<"a", "|", "b">>},
     card : {None, <<"b">>, <<"b", "|">>}]

InitDelim ==
    /\ store = {}
    /\ clock = 0
    /\ pc = [p \in Procs |-> "idle"]
    /\ call = [p \in Procs |-> NoCall]
    /\ ret = [p \in Procs |-> NoRet]
    /\ session = ClosedSession
    /\ tmret = NoRet
    /\ hist = [issued |-> {}]
    /\ limits = {}
    /\ lret = NoLimitCall
    /\ accounts = DefaultAccounts
    /\ tz = 0
    /\ probe \in [x : DelimArgs, y : DelimArgs, done : {FALSE},
                  sx : {<<>>}, sy : {<<>>}, hx : {<<>>}, hy : {<<>>}]

NextDelim == Fingerprint

SpecDelim == InitDelim /\ [][NextDelim]_vars

\* One caller who uses strict add and safe add side by side
NextMixed ==
    \/ \E a \in StrictCandidates : AddTransaction(Main, a)
    \/ \E a \in ValidCandidates : AddTransactionSafe(Main, a)
    \/ SafeAddInsert(Main)
    \/ \E id \in 1..MaxId : DeleteTransaction(User, id)
    \/ Tick

SpecMixed == Init /\ [][NextMixed]_vars

\* Calls that name a card for a cash transaction or none for a card
\* transaction, and edits of the type alone, beside consistent ones
KindCandidates ==
    { Args(Cash, Tea, 5500, DayOne, None),
      Args(CardType, Tea, 5500, DayOne, Visa),
      Args(Cash, Tea, 5500, DayOne, Visa),
      Args(CardType, Tea, 5500, DayOne, None) }

KindEdits == { [type |-> CardType], [type |-> Cash], [card |-> Visa], [amount |-> 7000] }

KindBatches == SeqsUpTo({[description |-> Tea, amount |-> 5500]}, 1)

NextKinds ==
    \/ \E a \in KindCandidates : AddTransaction(Main, a)
    \/ \E a \in KindCandidates : AddTransactionSafe(Main, a)
    \/ \E b \in KindBatches : ImportTransactions(Main, b)
    \/ ImportItem(Main)
    \/ SafeAddInsert(Main)
    \/ \E id \in 1..MaxId, e \in KindEdits : UpdateTransaction(User, id, e)

SpecKinds == Init /\ [][NextKinds]_vars

\* Edits through a BudgetManager block and through the Budget facade. A
\* call that passes the id alone has no key that update_transaction reads
NoFields == [id_only |-> TRUE]

TmEdits ==
    { [amount |-> 7000],
      [type |-> CardType, card |-> Visa],
      [description |-> Pie, category |-> Food, amount |-> 0],
      [type |-> <<"bank">>, description |-> Pie],
      [description |-> Blank],
      NoFields }

NextBlock ==
    \/ SessionOpen
    \/ TmAddTransaction(Args(Cash, Tea, 5500, DayOne, None))
    \/ \E id \in 1..MaxId, e \in TmEdits : TmUpdateTransaction(id, e)
    \/ SessionCommit
    \/ SessionRollback
    \/ \E id \in 1..MaxId, e \in TmEdits : UpdateTransaction(Main, id, e)

SpecBlock == Init /\ [][NextBlock]_vars

\* Daily limits checked right after strict adds, on machines in time zones
\* behind UTC, at UTC and ahead of UTC
TimeZones == {0 - 5, 0, 9}

DailyPolicies == {LimitArgs(9000, Daily, None, None), LimitArgs(9000, Daily, None, Cash)}

InitClock ==
    /\ store = {}
    /\ clock = 0
    /\ pc = [p \in Procs |-> "idle"]
    /\ call = [p \in Procs |-> NoCall]
    /\ ret = [p \in Procs |-> NoRet]
    /\ session = ClosedSession
    /\ tmret = NoRet
    /\ hist = [issued |-> {}]
    /\ limits = {}
    /\ lret = NoLimitCall
    /\ probe = <<>>
    /\ accounts = DefaultAccounts
    /\ tz \in TimeZones

NextClock ==
    \/ \E a \in StrictCandidates : AddTransaction(Main, a)
    \/ \E a \in DailyPolicies : SetSpendingLimit(a)
    \/ \E a \in DailyPolicies : CheckSpendingLimit(a)
    \/ SessionOpen
    \/ \E a \in StrictCandidates : TmAddTransaction(a)
    \/ \E a \in DailyPolicies : TmCheckSpendingLimit(a)
    \/ SessionCommit
    \/ Tick

SpecClock == InitClock /\ [][NextClock]_vars

\* Balances set and cards added in BudgetManager blocks, one after another
BalanceTypes == {Cash, Wise, Amex}
BalanceAmounts == {0, 100000}
CardNames == {Amex, Wise, Cash, Blank, <<" ", "Amex">>}

NextCards ==
    \/ SessionOpen
    \/ \E t \in BalanceTypes, amount \in BalanceAmounts, is_number \in BOOLEAN :
          TmUpdateBalance(t, amount, is_number)
    \/ \E name \in CardNames : TmAddNewCard(name)
    \/ SessionCommit
    \/ SessionRollback

SpecCards == Init /\ [][NextCards]_vars

\* One batch import with nobody else at the table, which holds what earlier
\* manual safe adds stored
PriorTables == {StoredBy(b) : b \in SeqsUpTo({Args(Cash, TeaLoud, 5500, DayOneLate, None)}, 1)}

InitBatch ==
    /\ store \in PriorTables
    /\ clock = 0
    /\ pc = [p \in Procs |-> "idle"]
    /\ call = [p \in Procs |-> NoCall]
    /\ ret = [p \in Procs |-> NoRet]
    /\ session = ClosedSession
    /\ tmret = NoRet
    /\ hist = [issued |-> {}]
    /\ limits = {}
    /\ lret = NoLimitCall
    /\ probe = <<>>
    /\ accounts = DefaultAccounts
    /\ tz = 0

NextBatch ==
    \/ \E b \in Batches : call[Main].op = "none" /\ ImportTransactions(Main, b)
    \/ ImportItem(Main)
    \/ SafeAddInsert(Main)
    \/ Tick

SpecBatch == InitBatch /\ [][NextBatch]_vars

----------------------------------------------------------------------------
\* Claims about safe add

\* p has returned from a direct add_transaction_safe call with (id, is_new)
SafeReturned(p) == call[p].op = "safe" /\ pc[p] = "idle" /\ ret[p].kind = "pair"

\* The lookup of p's safe add found nothing, so p went on to insert
LookupMissed(p) == call[p].txn # NoTxn

\* C1: in every reachable state, whatever the interleaving of safe adds
\* (lookups that ran before another caller's insert included), no two rows of
\* the table carry the same fingerprint.
C1_FingerprintUnique ==
    \A r1, r2 \in store : (r1.hash # None /\ r1.hash = r2.hash) => r1 = r2

\* A caller whose lookup missed has had its insert rejected, because the
\* fingerprint was stored by another caller in between.
C1_Witness ==
    \E p \in Procs :
        /\ pc[p] = "requery"
        /\ \E r \in store : r.hash = call[p].txn.hash

\* C2: two safe adds of the same fingerprint whose lookups both found
\* nothing leave exactly one row with it, return the same id, and at most one
\* of them reports is_new (none when a third writer stored the row first).
C2_RaceOneRow ==
    \A p, q \in Procs :
        (/\ p # q
         /\ SafeReturned(p) /\ SafeReturned(q)
         /\ LookupMissed(p) /\ LookupMissed(q)
         /\ call[p].txn.hash = call[q].txn.hash)
        => /\ Cardinality({r \in store : r.hash = call[p].txn.hash}) = 1
           /\ ret[p].id = ret[q].id
           /\ \E r \in store : r.hash = call[p].txn.hash /\ r.id = ret[p].id
           /\ ~(ret[p].is_new /\ ret[q].is_new)

\* Both lookups missed; one caller stored the row, the other was rejected
\* and found it again.
C2_Witness ==
    \E p, q \in Procs :
        /\ p # q
        /\ SafeReturned(p) /\ SafeReturned(q)
        /\ LookupMissed(p) /\ LookupMissed(q)
        /\ call[p].txn.hash = call[q].txn.hash
        /\ ret[p].is_new /\ ~ret[q].is_new
        /\ ret[p].id = ret[q].id

\* What the contract calls an invalid candidate
InvalidCandidate(a) ==
    \/ Strip(a.description) = <<>>
    \/ a.amount <= 0
    \/ a.type \notin {Cash, CardType}

\* C3: a safe add of a valid candidate that directly follows a safe add of
\* the same caller which stored an equivalent candidate (same calendar day,
\* amount, description and card) as row id returns (id, false) and writes
\* nothing, as long as that row is still in the table: the table holds
\* exactly one row for the candidate, unchanged.
C3_SecondCallIsDuplicate ==
    [][\A p \in Callers, a \in Candidates :
          (/\ FollowsOwnInsert(p, a)
           /\ ~InvalidCandidate(a)
           /\ AddTransactionSafe(p, a)
           /\ \E r \in store : r.id = ret[p].id /\ r.hash = call[p].txn.hash)
          => /\ ret'[p] = RetPair(ret[p].id, FALSE)
             /\ pc'[p] = "idle"
             /\ store' = store
             /\ Cardinality({r \in store' : r.hash = call[p].txn.hash}) = 1]_vars

\* A caller got (id, true), called again with an equivalent candidate and
\* got (id, false) straight from the lookup.
C3_Witness ==
    \E p \in Callers :
        /\ SafeReturned(p)
        /\ call[p].repeat
        /\ ~ret[p].is_new
        /\ ~LookupMissed(p)
        /\ \E r \in store : r.id = ret[p].id

\* C4 as stated: an invalid candidate makes safe add fail with
\* ValidationError and leaves the table as it was.
C4_RaisesValidationError ==
    [][\A p \in Callers, a \in Candidates :
          (InvalidCandidate(a) /\ AddTransactionSafe(p, a))
          => /\ ret'[p].kind = "raise"
             /\ ret'[p].exc = "ValidationError"
             /\ store' = store]_vars

\* C4 amended: an invalid candidate makes safe add fail with Python's
\* ValueError, at once and without touching the table.
C4_RaisesValueError ==
    [][\A p \in Callers, a \in Candidates :
          (InvalidCandidate(a) /\ AddTransactionSafe(p, a))
          => /\ ret'[p].kind = "raise"
             /\ ret'[p].exc = "ValueError"
             /\ pc'[p] = "idle"
             /\ store' = store]_vars

\* A safe add of an invalid candidate has failed against a table that holds rows.
C4_Witness ==
    \E p \in Callers :
        /\ call[p].op = "safe"
        /\ InvalidCandidate(call[p].batch[1])
        /\ ret[p].kind = "raise"
        /\ store # {}

----------------------------------------------------------------------------
\* Claims about strict add

Ids(rows) == {r.id : r \in rows}

\* C5 as stated: every strict add of valid input stores one new row and
\* returns an id that no strict add has returned before.
C5_IdNeverReturnedBefore ==
    [][/\ \A p \in Callers, a \in StrictCandidates :
             (~InvalidCandidate(a) /\ AddTransaction(p, a))
             => /\ ret'[p].kind = "id"
                /\ ret'[p].id \notin hist.issued
                /\ Cardinality(store') = Cardinality(store) + 1
       /\ \A a \in StrictCandidates :
             (~InvalidCandidate(a) /\ TmAddTransaction(a))
             => /\ tmret'.kind = "id"
                /\ tmret'.id \notin hist.issued]_vars

\* C5 amended: strict add does not deduplicate; every call with valid input
\* adds exactly one row, without a fingerprint, and returns its id, which
\* differs from the id of every row the table holds at that moment (the id of
\* a deleted or rolled-back row may be returned again).
C5_AddsOneNewRow ==
    [][/\ \A p \in Callers, a \in StrictCandidates :
             (~InvalidCandidate(a) /\ AddTransaction(p, a))
             => /\ ret'[p].kind = "id"
                /\ ret'[p].id \notin Ids(store)
                /\ Cardinality(store') = Cardinality(store) + 1
                /\ \E r \in store' :
                      /\ r.id = ret'[p].id
                      /\ r.hash = None
                      /\ store' = store \cup {r}
       /\ \A a \in StrictCandidates :
             (~InvalidCandidate(a) /\ TmAddTransaction(a))
             => /\ tmret'.kind = "id"
                /\ tmret'.id \notin Ids(SessionView)
                /\ Cardinality(SessionView') = Cardinality(SessionView) + 1
                /\ \E r \in SessionView' :
                      /\ r.id = tmret'.id
                      /\ r.hash = None
                      /\ SessionView' = SessionView \cup {r}]_vars

\* Two strict adds with identical arguments have left two rows that differ
\* in nothing but their id.
C5_Witness ==
    /\ \E p \in Callers : call[p].op = "add" /\ ret[p].kind = "id"
    /\ \E r1, r2 \in store : r1.id # r2.id /\ [r1 EXCEPT !.id = r2.id] = r2

\* C6 as stated: strict add of invalid input raises ValidationError and adds
\* no row, through the Budget facade and through TransactionManager alike.
C6_RaisesValidationError ==
    [][/\ \A p \in Callers, a \in StrictCandidates :
             (InvalidCandidate(a) /\ AddTransaction(p, a))
             => /\ ret'[p].kind = "raise"
                /\ ret'[p].exc = "ValidationError"
                /\ store' = store
       /\ \A a \in StrictCandidates :
             (InvalidCandidate(a) /\ TmAddTransaction(a))
             => /\ tmret'.kind = "raise"
                /\ tmret'.exc = "ValidationError"
                /\ store' = store]_vars

\* C6 amended: strict add of invalid input adds no row; TransactionManager
\* raises ValidationError (and rolls its session back), the Budget facade
\* raises Python's ValueError.
C6_RaisesAndAddsNothing ==
    [][/\ \A p \in Callers, a \in StrictCandidates :
             (InvalidCandidate(a) /\ AddTransaction(p, a))
             => /\ ret'[p].kind = "raise"
                /\ ret'[p].exc = "ValueError"
                /\ store' = store
       /\ \A a \in StrictCandidates :
             (InvalidCandidate(a) /\ TmAddTransaction(a))
             => /\ tmret'.kind = "raise"
                /\ tmret'.exc = "ValidationError"
                /\ store' = store
                /\ SessionView' \subseteq store]_vars

\* Both entry points have refused invalid input against a table that holds rows.
C6_Witness ==
    /\ store # {}
    /\ tmret.kind = "raise" /\ tmret.exc = "ValidationError"
    /\ \E p \in Callers :
          /\ call[p].op = "add"
          /\ InvalidCandidate(call[p].batch[1])
          /\ ret[p].kind = "raise"

----------------------------------------------------------------------------
\* Claims about import_transactions

\* p has returned from import_transactions with its statistics
ImportReturned(p) == call[p].op = "import" /\ pc[p] = "idle" /\ ret[p].kind = "stats"

\* p's import was stopped from outside
Interrupted(p) == ret[p].kind = "raise" /\ ret[p].exc = "KeyboardInterrupt"

\* A record the contract calls malformed: a required key is missing or a
\* value is invalid
Malformed(rec) ==
    \/ "description" \notin DOMAIN rec
    \/ "amount" \notin DOMAIN rec
    \/ Strip(rec.description) = <<>>
    \/ rec.amount <= 0
    \/ ("type" \in DOMAIN rec /\ rec.type \notin {Cash, CardType})

RECURSIVE CountMalformed(_)
CountMalformed(b) ==
    IF b = <<>> THEN 0
    ELSE (IF Malformed(Head(b)) THEN 1 ELSE 0) + CountMalformed(Tail(b))

\* The fingerprint of a well-formed record imported at time now
RecordHash(rec, now) ==
    generate_transaction_hash(IF "date" \in DOMAIN rec THEN rec.date ELSE now,
                              rec.amount, rec.description, Get(rec, "card", None))

\* C7: the statistics import_transactions returns satisfy total = len(input)
\* and imported + duplicates + errors = total, whatever the input list holds.
C7_StatsAddUp ==
    \A p \in Procs :
        ImportReturned(p)
        => LET st == ret[p].stats
           IN /\ st.total = Len(call[p].batch)
              /\ st.imported + st.duplicates + st.errors = st.total

\* An import of a new, a duplicate and a malformed record has returned.
C7_Witness ==
    \E p \in Procs :
        /\ ImportReturned(p)
        /\ ret[p].stats.imported >= 1
        /\ ret[p].stats.duplicates >= 1
        /\ ret[p].stats.errors >= 1

\* The import p runs completes the item it is at
ItemDone(p) ==
    /\ call[p].op = "import"
    /\ pc[p] # "idle"
    /\ call'[p].idx = call[p].idx + 1

\* The record of the item the import p is at
Item(p) == call[p].batch[call[p].idx]

\* The fingerprints a well-formed record can have been given up to now
RecordHashes(rec) == {RecordHash(rec, ClockTime(c)) : c \in 0..clock}

\* C8: a malformed record never ends the batch: unless stopped from outside,
\* import_transactions returns its statistics and errors is the number of
\* malformed records; and every well-formed record is in the table when its
\* item completes, or was there when the insert of it was rejected.
C8_FaultIsolation ==
    /\ [](\A p \in Procs :
             (call[p].op = "import" /\ pc[p] = "idle" /\ ~Interrupted(p))
             => /\ ret[p].kind = "stats"
                /\ ret[p].stats.errors = CountMalformed(call[p].batch))
    /\ [][\A p \in Procs :
             (ItemDone(p) /\ ~Malformed(Item(p)))
             => \/ RecordHashes(Item(p)) \cap Hashes(store') # {}
                \/ pc[p] = "requery"]_vars
    /\ [][\A p \in Procs :
             (call[p].op = "import" /\ pc[p] = "insert" /\ pc'[p] = "requery")
             => call[p].txn.hash \in RecordHashes(Item(p)) \cap Hashes(store)]_vars

\* A batch that starts with a malformed record has been imported: the
\* record after it was stored.
C8_Witness ==
    \E p \in Procs :
        /\ ImportReturned(p)
        /\ Len(call[p].batch) >= 2
        /\ Malformed(call[p].batch[1])
        /\ ~Malformed(call[p].batch[2])
        /\ ret[p].stats.imported >= 1
        /\ ret[p].stats.errors >= 1

CounterKeys == {"total", "imported", "duplicates", "errors"}

\* str(e) of the exception a malformed record raises
ErrorText(rec) ==
    IF "description" \notin DOMAIN rec THEN "'description'"
    ELSE IF "amount" \notin DOMAIN rec THEN "'amount'"
    ELSE IF Strip(rec.description) = <<>> THEN "Description cannot be empty"
    ELSE IF rec.amount <= 0 THEN "Amount must be positive"
    ELSE "Type must be 'cash' or 'card'"

\* One message for each malformed record of b, in the order of b
RECURSIVE ExpectedOutput(_)
ExpectedOutput(b) ==
    IF b = <<>> THEN <<>>
    ELSE (IF Malformed(Head(b))
          THEN <<<<"Error importing transaction: ", ErrorText(Head(b))>>>>
          ELSE <<>>) \o ExpectedOutput(Tail(b))

\* C9 as stated: what import_transactions returns holds, beside the four
\* counters, the list of the error messages.
C9_ReturnsErrorList ==
    \A p \in Procs :
        ImportReturned(p) => DOMAIN ret[p].stats \ CounterKeys # {}

\* C9 amended: import_transactions returns the four counters and nothing
\* else; the error messages go to standard output, one for each failed
\* record, in the order of the records in the input.
C9_PrintsErrorsInOrder ==
    \A p \in Procs :
        ImportReturned(p)
        => /\ DOMAIN ret[p].stats = CounterKeys
           /\ call[p].printed = ExpectedOutput(call[p].batch)
           /\ Len(call[p].printed) = ret[p].stats.errors

\* An import has returned after two records failed with different messages.
C9_Witness ==
    \E p \in Procs :
        /\ ImportReturned(p)
        /\ Len(call[p].printed) >= 2
        /\ call[p].printed[1] # call[p].printed[2]

\* A row that an earlier run of import_transactions stored for the record of
\* the item p is at: no earlier item of the running batch is that record
StoredByEarlierRun(p, r) ==
    /\ r.import_source = Pdf
    /\ r.hash \in RecordHashes(Item(p))
    /\ \A j \in 1..(call[p].idx - 1) : call[p].batch[j] # Item(p)

\* C10 as stated: an import reports every record that an earlier run stored
\* (and that is still stored) as a duplicate and stores no second copy of it.
C10_ReimportIsDuplicate ==
    [][\A p \in Procs :
          (/\ ItemDone(p)
           /\ ~Malformed(Item(p))
           /\ \E r \in store : StoredByEarlierRun(p, r))
          => /\ call'[p].stats.duplicates = call[p].stats.duplicates + 1
             /\ store' = store]_vars

\* C10 amended: an import reports a record that an earlier run stored, and
\* that is still stored, as a duplicate and stores no second copy of it,
\* provided the record carries its own date or the earlier run stored it on
\* the current calendar day; a record without a date is fingerprinted with
\* the day of the import, so that a later day's run stores it again.
C10_DatedReimportIsDuplicate ==
    [][\A p \in Procs :
          (/\ ItemDone(p)
           /\ ~Malformed(Item(p))
           /\ \E r \in store :
                 /\ StoredByEarlierRun(p, r)
                 /\ "date" \in DOMAIN Item(p) \/ SameDay(r.timestamp, Now))
          => /\ call'[p].stats.duplicates = call[p].stats.duplicates + 1
             /\ call'[p].stats.imported = call[p].stats.imported
             /\ store' = store]_vars

\* A second run over records an earlier run stored has returned: every
\* record was counted as a duplicate of a row an import had stored.
C10_Witness ==
    \E p \in Procs :
        /\ ImportReturned(p)
        /\ call[p].batch # <<>>
        /\ ret[p].stats.duplicates = Len(call[p].batch)
        /\ \A i \in 1..Len(call[p].batch) :
              \E r \in store :
                  r.import_source = Pdf /\ r.hash \in RecordHashes(call[p].batch[i])

----------------------------------------------------------------------------
\* Claims about spending limits

\* The limits and the transactions the implementation behind a call reads:
\* the Budget facade opens a session of its own and sees what is committed,
\* LimitManager sees its session
LimitsSeenBy(impl) == IF impl = "LimitManager" THEN LimitView ELSE limits
RowsSeenBy(impl) == IF impl = "LimitManager" THEN SessionView ELSE store

SameTriple(l, a) ==
    l.category = a.category /\ l.source = a.source /\ l.period = a.period

\* The policies stored for exactly the triple of a call
ExactPolicies(limit_rows, a) == {l \in limit_rows : SameTriple(l, a)}

\* C11: after any sequence of set_spending_limit calls the table holds at
\* most one spending limit for each (category, source, period) triple
C11_OneLimitPerTriple ==
    \A l1 \in limits : \A l2 \in limits : SameTriple(l1, l2) => l1 = l2

\* C12: every stored spending limit has a limit_amount above zero and one of
\* the four periods
C12_StoredLimitsValid ==
    \A l \in limits : l.limit_amount > 0 /\ l.period \in Periods

\* What a check of the same arguments returns when no limit is stored at all
NoPolicyResult(impl, a) ==
    IF impl = "LimitManager" THEN TmCheckResult({}, RowsSeenBy(impl), a, Now)
    ELSE BudgetCheckResult({}, RowsSeenBy(impl), a, Now)

\* A check_spending_limit call returns in this step
CheckReturns == lret' # lret /\ lret'.op = "check"

\* C13: a check that finds a stored policy for its triple never returns what
\* a check without any stored policy returns, whatever has been spent
C13_NoPolicyDistinguishable ==
    [][CheckReturns /\ ExactPolicies(LimitsSeenBy(lret'.impl), lret'.args) # {}
         => lret' # NoPolicyResult(lret'.impl, lret'.args)]_vars

\* C14: every dict a check returns has remaining = limit - spent, below zero
\* when more was spent than the limit allows
C14_RemainingUnclamped ==
    lret.op = "check" /\ lret.kind = "dict" => lret.remaining = lret.limit - lret.spent

\* C15: a check with no stored policy for exactly its (category, source,
\* period) triple evaluates no policy: a policy of another category or
\* source of the same period is never used in its place
C15_ExactTripleOnly ==
    [][CheckReturns /\ ExactPolicies(LimitsSeenBy(lret'.impl), lret'.args) = {}
         => lret' = NoPolicyResult(lret'.impl, lret'.args)]_vars

\* The period of now that holds the instant t: the same day, the same
\* Monday-to-Sunday week, the same month, the same year
InPeriod(period, t, now) ==
    CASE period = Daily -> SameDay(t, now)
      [] period = Weekly -> ToOrdinal(t) - Weekday(t) = ToOrdinal(now) - Weekday(now)
      [] period = Monthly -> t.year = now.year /\ t.month = now.month
      [] OTHER -> t.year = now.year

\* The transactions a check of a has to sum
InScope(rows, a, now) ==
    {t \in rows : /\ InPeriod(a.period, t.timestamp, now)
                  /\ a.category # None => t.category = a.category
                  /\ a.source = Cash => t.type = Cash
                  /\ a.source \notin {None, Cash} => t.card = a.source}

\* C16: the spent amount a check reports for a stored policy is the sum of
\* the transactions inside the period of now that match the category, when
\* one is given, and the source, when one is given
C16_SpentIsWindowSum ==
    [][CheckReturns /\ ExactPolicies(LimitsSeenBy(lret'.impl), lret'.args) # {}
         => /\ lret'.kind = "dict"
            /\ lret'.spent = SumAmounts(InScope(RowsSeenBy(lret'.impl), lret'.args, Now))]_vars

\* The first and the last instant of the month of now
MonthStart(now) == [year |-> now.year, month |-> now.month, day |-> 1, hour |-> 0]
MonthEnd(now) ==
    [year |-> now.year, month |-> now.month,
     day |-> DaysInMonth(now.year, now.month), hour |-> 23]

\* C17: a monthly check counts no transaction stamped before the first day
\* of the month of now, 00:00, or after its last day, end of day: what it
\* reports as spent is at most the sum of the matching transactions between
\* the two
C17_MonthlyWindowBounds ==
    [][CheckReturns /\ lret'.args.period = Monthly /\ lret'.kind = "dict"
         => lret'.spent <=
              SumAmounts({t \in RowsSeenBy(lret'.impl) :
                            /\ DtLeq(MonthStart(Now), t.timestamp)
                            /\ DtLeq(t.timestamp, MonthEnd(Now))
                            /\ MatchesFilters(t, lret'.args.category, lret'.args.source)})]_vars

----------------------------------------------------------------------------
\* Claims about the fingerprint

\* The amount in whole cents, the nearest ones
Cents(amount) == (amount + 5) \div 10

\* Text without its letter case and without the whitespace around it
Folded(text) == Strip(Lower(text))

\* The card as the fingerprint sees it: no card and the empty name are one
CardKey(card) == IF card = None \/ card = <<>> THEN <<>> ELSE Folded(card)

DiffCount(differs) == Cardinality({k \in DOMAIN differs : differs[k]})

\* The components in which the candidates differ as they were given
RawDiffs ==
    [date |-> ~SameDay(probe.x.date, probe.y.date),
     amount |-> probe.x.amount # probe.y.amount,
     description |-> probe.x.description # probe.y.description,
     card |-> probe.x.card # probe.y.card]

\* The components in which the candidates differ once normalised
NormalisedDiffs ==
    [date |-> ~SameDay(probe.x.date, probe.y.date),
     amount |-> Cents(probe.x.amount) # Cents(probe.y.amount),
     description |-> Folded(probe.x.description) # Folded(probe.y.description),
     card |-> CardKey(probe.x.card) # CardKey(probe.y.card)]

----------------------------------------------------------------------------
\* Claims about edits

\* The row r no longer shows what candidate a said
Edited(r, a) ==
    \/ r.type # a.type
    \/ r.card # a.card
    \/ r.description # Strip(a.description)
    \/ r.amount # a.amount
    \/ r.category # a.category

\* C20: update_transaction changes neither the id nor the fingerprint of any
\* row, whichever of type, card, description, amount and category it edits,
\* and adds and removes no row; and a safe add of a candidate whose
\* fingerprint an edited row carries (the candidate the row was made from,
\* fingerprinted on the same calendar day) returns that row's id with
\* is_new = false and writes nothing
C20_EditKeepsIdentity ==
    /\ [][(/\ store' # store
            /\ \E id \in 1..MaxId, e \in Edits : UpdateTransaction(User, id, e))
            => {<<r.id, r.hash>> : r \in store'} = {<<r.id, r.hash>> : r \in store}]_vars
    /\ [][(pc[Main] = "idle" /\ call'[Main] # call[Main]) =>
            \A a \in ValidCandidates : \A r \in store :
              (/\ Edited(r, a)
               /\ r.hash = generate_transaction_hash(EffectiveDate(a, Now), a.amount,
                                                     a.description, a.card)
               /\ AddTransactionSafe(Main, a))
              => /\ ret'[Main] = RetPair(r.id, FALSE)
                 /\ pc'[Main] = "idle"
                 /\ store' = store]_vars

\* The user has edited a row, and a safe add of the candidate it was made
\* from has then returned its id as a duplicate
C20_Witness ==
    /\ SafeReturned(Main)
    /\ ~ret[Main].is_new
    /\ ~LookupMissed(Main)
    /\ call[User].op = "update"
    /\ ret[User] = RetBool(TRUE)
    /\ \E r \in store :
         /\ r.id = ret[Main].id
         /\ r.hash = generate_transaction_hash(call[Main].date, call[Main].batch[1].amount,
                                               call[Main].batch[1].description,
                                               call[Main].batch[1].card)
         /\ r.amount # call[Main].batch[1].amount
         /\ r.description # Strip(call[Main].batch[1].description)

----------------------------------------------------------------------------
\* Claims about what a safe add returns

\* The fingerprint of the candidate of a direct safe add, from its call record
CandidateHash(c) ==
    generate_transaction_hash(c.date, c.batch[1].amount, c.batch[1].description,
                              c.batch[1].card)

\* This step is the one in which p's direct safe add returns (id, is_new)
SafeReturns(p) ==
    /\ pc'[p] = "idle"
    /\ call'[p].op = "safe"
    /\ ret'[p].kind = "pair"
    /\ \/ \E a \in Candidates : AddTransactionSafe(p, a)
       \/ SafeAddInsert(p)
       \/ SafeAddRequery(p)

\* C23 as stated: every safe add that returns, returns a non-null id, and a
\* row with that id and the candidate's fingerprint is in the table at that
\* moment, on the conflict path too.
C23_ReturnsStoredId ==
    [][\A p \in Callers :
          SafeReturns(p)
          => /\ ret'[p].id # NoId
             /\ \E r \in store' :
                   r.id = ret'[p].id /\ r.hash = CandidateHash(call'[p])]_vars

\* C23 amended: a safe add that returns, returns the id of a row that is in
\* the table at that moment and carries the candidate's fingerprint, or, on
\* the conflict path only, (None, false) when the row that made the insert
\* fail was deleted before the second lookup: then no row carries the
\* fingerprint and nothing is stored.
C23_ReturnsStoredIdOrNone ==
    [][\A p \in Callers :
          SafeReturns(p)
          => \/ /\ ret'[p].id # NoId
                /\ \E r \in store' :
                      r.id = ret'[p].id /\ r.hash = CandidateHash(call'[p])
             \/ /\ pc[p] = "requery"
                /\ ret'[p] = RetPair(NoId, FALSE)
                /\ store' = store
                /\ \A r \in store : r.hash # CandidateHash(call'[p])]_vars

\* The conflict path has ended without a row: a caller's lookup missed, its
\* insert was rejected, and the row was gone at the second lookup.
C23_Witness ==
    \E p \in Callers :
        /\ SafeReturned(p) /\ LookupMissed(p)
        /\ ret[p] = RetPair(NoId, FALSE)
        /\ \A r \in store : r.hash # call[p].txn.hash

\* C24 as stated: when the row a caller's safe add stored has been deleted,
\* the caller's next safe add of an equivalent candidate misses in the
\* lookup, inserts a new row and returns is_new = true with an id other than
\* the deleted row's.
C24_ReinsertsWithNewId ==
    [][\A p \in Callers :
          /\ \A a \in ValidCandidates :
                (/\ FollowsOwnInsert(p, a)
                 /\ \A r \in store : r.id # ret[p].id
                 /\ \A r \in store : r.hash # call[p].txn.hash
                 /\ AddTransactionSafe(p, a))
                => pc'[p] = "insert" /\ call'[p].txn.hash = call[p].txn.hash
          /\ (/\ pc[p] = "insert"
              /\ call[p].op = "safe"
              /\ call[p].repeat
              /\ \A r \in store : r.hash # call[p].txn.hash
              /\ SafeAddInsert(p))
             => /\ ret'[p].kind = "pair"
                /\ ret'[p].is_new
                /\ ret'[p].id # call[p].prev
                /\ \E r \in store' : /\ r.id = ret'[p].id
                                     /\ r.hash = call[p].txn.hash
                                     /\ store' = store \cup {r}]_vars

\* C24 amended: the same, but the id is only new among the rows of the
\* table: it differs from the id of every row stored at that moment, and can
\* be the id the deleted row had.
C24_ReinsertsWithFreeId ==
    [][\A p \in Callers :
          /\ \A a \in ValidCandidates :
                (/\ FollowsOwnInsert(p, a)
                 /\ \A r \in store : r.id # ret[p].id
                 /\ \A r \in store : r.hash # call[p].txn.hash
                 /\ AddTransactionSafe(p, a))
                => pc'[p] = "insert" /\ call'[p].txn.hash = call[p].txn.hash
          /\ (/\ pc[p] = "insert"
              /\ call[p].op = "safe"
              /\ call[p].repeat
              /\ \A r \in store : r.hash # call[p].txn.hash
              /\ SafeAddInsert(p))
             => /\ ret'[p].kind = "pair"
                /\ ret'[p].is_new
                /\ ret'[p].id \notin Ids(store)
                /\ \E r \in store' : /\ r.id = ret'[p].id
                                     /\ r.hash = call[p].txn.hash
                                     /\ store' = store \cup {r}]_vars

\* A caller stored a candidate, the row was deleted, and the caller's next
\* safe add of an equivalent candidate stored it again under the same id.
C24_Witness ==
    \E p \in Callers :
        /\ SafeReturned(p) /\ call[p].repeat /\ LookupMissed(p)
        /\ ret[p].is_new
        /\ ret[p].id = call[p].prev
        /\ \E r \in store : r.id = ret[p].id /\ r.hash = call[p].txn.hash

----------------------------------------------------------------------------
\* Claims about the order of a batch

\* The rows the import has stored, and the fingerprints that were there before
ImportedRows == {r \in store : r.import_source = Pdf}
PriorHashes == {r.hash : r \in store \ ImportedRows}

\* The items of p's batch that are done and well-formed
ValidDone(p) ==
    {i \in 1..Len(call[p].batch) : i < call[p].idx /\ ~Malformed(call[p].batch[i])}

\* The fingerprint of the item p's import is at: the one it looked up
ItemHash(p) ==
    IF pc[p] = "insert" THEN call[p].txn.hash ELSE RecordHash(Item(p), Now)

\* C25: import_transactions takes the records one at a time in input order.
\* A well-formed record whose fingerprint the table does not hold is stored
\* and counted as imported, and from then on the table holds it, so that
\* every later record of the batch with that fingerprint is counted as a
\* duplicate and stores nothing. At every point of the run, imported is the
\* number of distinct fingerprints among the well-formed records done so far
\* that the table did not hold before the run.
C25_FirstImportedRestDuplicates ==
    /\ [][\A p \in Callers :
            (ItemDone(p) /\ ~Malformed(Item(p)))
            => IF ItemHash(p) \in Hashes(store)
               THEN /\ call'[p].stats.duplicates = call[p].stats.duplicates + 1
                    /\ call'[p].stats.imported = call[p].stats.imported
                    /\ store' = store
               ELSE /\ call'[p].stats.imported = call[p].stats.imported + 1
                    /\ call'[p].stats.duplicates = call[p].stats.duplicates
                    /\ \E r \in store' : /\ r.hash = ItemHash(p)
                                         /\ r.import_source = Pdf
                                         /\ store' = store \cup {r}]_vars
    /\ [](\A p \in Callers :
            call[p].op = "import" =>
              LET st == call[p].stats
                  new == {r.hash : r \in ImportedRows}
              IN /\ st.imported = Cardinality(new)
                 /\ st.imported = Cardinality(ImportedRows)
                 /\ st.imported + st.duplicates = Cardinality(ValidDone(p))
                 /\ new \cap PriorHashes = {}
                 /\ \A i \in ValidDone(p) :
                       RecordHashes(call[p].batch[i]) \cap Hashes(store) # {}
                 /\ \A h \in new :
                       \E i \in ValidDone(p) : h \in RecordHashes(call[p].batch[i])
                 /\ clock = 0 =>
                       st.imported =
                         Cardinality({RecordHash(call[p].batch[i], Now) : i \in ValidDone(p)}
                                       \ PriorHashes))

\* A batch of three well-formed records with one fingerprint, which the
\* table did not hold, has returned: the first was imported, the other two
\* were duplicates.
C25_Witness ==
    \E p \in Callers :
        /\ ImportReturned(p)
        /\ Len(call[p].batch) = 3
        /\ \A i \in 1..3 : call[p].batch[i] = call[p].batch[1] /\ ~Malformed(call[p].batch[i])
        /\ ret[p].stats.imported = 1
        /\ ret[p].stats.duplicates = 2
        /\ Cardinality(ImportedRows) = 1

----------------------------------------------------------------------------
\* Claims about the hashed string

\* The text holds the delimiter of the hashed string
HasDelimiter(text) == \E i \in 1..Len(text) : text[i] = "|"

\* The two candidates have the same four normalised fields
SameNormalised == DiffCount(NormalisedDiffs) = 0

\* C30 as stated: the hashed string is an injective encoding of the four
\* normalised fields: candidates with different (day, amount, description,
\* card) have different hashed strings, also when a description or a card
\* name holds the delimiter.
C30_EncodingInjective ==
    probe.done /\ ~SameNormalised => probe.sx # probe.sy

\* C30 amended: the hashed string is an injective encoding of the four
\* normalised fields as long as no description holds the delimiter "|": then
\* candidates with different (day, amount, description, card) have different
\* hashed strings and fingerprints, whatever the card names hold. A
\* description with the delimiter can run into the card field.
C30_InjectiveWithoutDelimiter ==
    (/\ probe.done
     /\ ~SameNormalised
     /\ ~HasDelimiter(probe.x.description)
     /\ ~HasDelimiter(probe.y.description))
    => probe.sx # probe.sy /\ probe.hx # probe.hy

\* Two candidates that differ in the card alone, one card name holding the
\* delimiter, have been given different hashed strings.
C30_Witness ==
    /\ probe.done
    /\ probe.x.description = <<"a", "b">> /\ probe.y.description = <<"a", "b">>
    /\ probe.x.card = <<"b">> /\ probe.y.card = <<"b", "|">>
    /\ probe.x.date = probe.y.date /\ probe.x.amount = probe.y.amount
    /\ probe.sx # probe.sy

----------------------------------------------------------------------------
\* Claims about strict add beside safe add

\* The row r shows the event that candidate a, added at time now, names:
\* same calendar day, amount, description and card
ShowsEvent(r, a, now) ==
    /\ SameDay(r.timestamp, EffectiveDate(a, now))
    /\ r.amount = a.amount
    /\ SameText(r.description, a.description)
    /\ SameText(r.card, a.card)

\* The only rows that show a's event are rows without a fingerprint, and
\* there is one
OnlyStrictRowsShow(a, h, now) ==
    /\ \E r \in store : r.hash = None /\ ShowsEvent(r, a, now)
    /\ \A r \in store : r.hash # h

\* C29: a row stored by strict add carries no fingerprint, whatever the
\* table holds already; and a safe add of a candidate with the day, amount,
\* description and card of a strictly added row, and of no safely added one,
\* misses in its lookup, stores a new row with the fingerprint beside it and
\* returns its id with is_new = true.
C29_StrictRowsNeverMatch ==
    [][/\ \A a \in StrictCandidates :
             (store' # store /\ AddTransaction(Main, a))
             => \E r \in store' : r.hash = None /\ r.id \notin Ids(store)
                                   /\ store' = store \cup {r}
       /\ \A a \in ValidCandidates :
             (/\ pc[Main] = "idle"
              /\ OnlyStrictRowsShow(a, generate_transaction_hash(EffectiveDate(a, Now),
                                        a.amount, a.description, a.card), Now)
              /\ AddTransactionSafe(Main, a))
             => pc'[Main] = "insert" /\ store' = store
       /\ (/\ pc[Main] = "insert"
           /\ OnlyStrictRowsShow(call[Main].batch[1], call[Main].txn.hash, call[Main].date)
           /\ SafeAddInsert(Main))
          => /\ ret'[Main].kind = "pair"
             /\ ret'[Main].is_new
             /\ \E r \in store' : /\ r.id = ret'[Main].id
                                  /\ r.id \notin Ids(store)
                                  /\ r.hash = call[Main].txn.hash
                                  /\ store' = store \cup {r}]_vars

\* A safe add has stored a row beside a strictly added row of the same day,
\* amount, description and card.
C29_Witness ==
    /\ SafeReturned(Main) /\ ret[Main].is_new
    /\ \E r1, r2 \in store :
          /\ r1.hash = None
          /\ r2.hash # None /\ r2.id = ret[Main].id
          /\ ShowsEvent(r1, call[Main].batch[1], call[Main].date)
          /\ ShowsEvent(r2, call[Main].batch[1], call[Main].date)

----------------------------------------------------------------------------
\* Claims about the account of a transaction

\* C21: after any sequence of strict adds, safe adds, imports and updates,
\* every stored transaction has the type cash or card and has a card name
\* exactly when its type is card.
C21_CardIffTypeCard ==
    \A r \in store :
        /\ r.type \in {Cash, CardType}
        /\ r.card # None <=> r.type = CardType

----------------------------------------------------------------------------
\* Claims about the BudgetManager block

\* C22: what the operations that returned inside a with BudgetManager()
\* block have written is committed when the block exits without an
\* exception, also when another operation of the block raised a
\* ValidationError that the caller caught: an operation that raises leaves
\* the pending writes of the block as they are, a clean exit commits them
\* all, and an exit with an exception commits none.
C22_BlockCommitsWhatReturned ==
    [][/\ \A a \in StrictCandidates :
             (session.open /\ TmAddTransaction(a) /\ tmret'.kind = "raise")
             => SessionView' = SessionView
       /\ (session.open /\ SessionCommit) => store' = SessionView
       /\ (session.open /\ SessionRollback) => store' = store]_vars

----------------------------------------------------------------------------
\* Claims about failing edits

\* C26: update_transaction is all-or-nothing, through TransactionManager
\* and through the Budget facade: a call that fails on its amount or type
\* fails with ValidationError and leaves every transaction as the caller saw
\* it before the call, also when the call passed valid fields too; a call
\* for an id that does not exist, or with no field, returns False and
\* changes nothing.
C26_UpdateAllOrNothing ==
    [][\A id \in 1..MaxId, e \in TmEdits :
          /\ (session.open /\ TmUpdateTransaction(id, e))
             => /\ tmret'.kind = "raise"
                   => tmret'.exc = "ValidationError" /\ SessionView' = SessionView
                /\ (e = NoFields \/ \A r \in SessionView : r.id # id)
                   => tmret' = RetBool(FALSE) /\ SessionView' = SessionView
          /\ (pc[Main] = "idle" /\ UpdateTransaction(Main, id, e))
             => /\ ret'[Main].kind = "raise"
                   => ret'[Main].exc = "ValidationError" /\ store' = store
                /\ (e = NoFields \/ \A r \in store : r.id # id)
                   => ret'[Main] = RetBool(FALSE) /\ store' = store]_vars

----------------------------------------------------------------------------
\* Claims about the clocks

\* The transactions stamped by the default timestamp at this instant
StampedNow(rows) == {t \in rows : t.timestamp = CurrentTimestamp(clock)}

\* C27: a daily check made right after strict adds with the default
\* timestamp counts them, at any time of day and through either
\* implementation: what it reports as spent is at least the sum of the
\* matching transactions stamped at the instant of the check.
C27_FreshTransactionCounted ==
    [][(/\ CheckReturns
        /\ lret'.args.period = Daily
        /\ ExactPolicies(LimitsSeenBy(lret'.impl), lret'.args) # {})
       => /\ lret'.kind = "dict"
          /\ lret'.spent >=
               SumAmounts({t \in StampedNow(RowsSeenBy(lret'.impl)) :
                             MatchesFilters(t, lret'.args.category, lret'.args.source)})]_vars

----------------------------------------------------------------------------
\* Claims about balances

\* C28: load_cards, which runs on every entry of a BudgetManager block, and
\* add_new_card, when it returns, only add the balances that are missing:
\* every balance the block could see before the call is there after it with
\* the amount it had.
C28_ExistingBalancesKept ==
    [][(\/ ~session.open /\ SessionOpen
        \/ /\ session.open
           /\ tmret'.kind = "bool"
           /\ \E name \in CardNames : TmAddNewCard(name))
       => AccountView.balances \subseteq AccountView'.balances]_vars

====
